---- MODULE Spec2Model ----
(***************************************************************************)
(* Model of the configuration-to-payload translation layer of             *)
(* lit-prompt-config: the Configuration held by the component (value),    *)
(* the edits that patch it, and the payload builders toOpenRouterPayload  *)
(* and toAnthropicPayload with the template resolver they share; the      *)
(* template, provider and price helpers called on their own; and the      *)
(* model catalog with the dimming of controls a model does not support.   *)
(*                                                                         *)
(* Representation.                                                         *)
(*  - A string is a sequence of elements.  An element is "{", "}", "/",   *)
(*    a word element (made of \w characters only) or a text element (has  *)
(*    a character that is neither \w, a brace nor a slash).  The empty    *)
(*    string is << >>.                                                     *)
(*  - A fractional number is held in hundredths (1.0 is One, 0.9 is 90);  *)
(*    maxTokens and topK are plain integers.  null/undefined is Null in   *)
(*    a number field, NullStr in a string field and NullObj in an object  *)
(*    field (TLC compares only values of the same kind).                  *)
(*  - A JS object with optional keys (a payload, a variables map) is a    *)
(*    function whose DOMAIN is the set of keys that are present.          *)
(***************************************************************************)
EXTENDS Integers, Sequences, FiniteSets, TLC

VARIABLES value, variables, result,
          input, models, modelsLoading, modelsError, pending, newest,
          providerFilter, modelSearch, selectedProvider,
          testResult, testError, testLoading, clicks,
          buffers, internalUpdate,
          timers, sinceEdit, emitted, burst, event

\* the catalog fields and the fetches behind them
catalog == <<models, modelsLoading, modelsError, pending, newest>>

\* the model picker's inputs and the test section
panel == <<providerFilter, modelSearch, selectedProvider,
           testResult, testError, testLoading, clicks>>

\* what an edit of value touches besides value: the text editors' buffers,
\* the update flag, the debouncer and the event last dispatched
editor == <<buffers, internalUpdate, timers, sinceEdit, emitted, burst, event>>

\* state the payload builders and the string helpers leave alone
rest == <<input, catalog, panel, editor>>

vars == <<value, variables, result, rest>>

\* ------------------------------------------------------------------ bounds
MaxModelLen == 3
MaxStops == 2
MaxTools == 2
MaxChunks == 3
MaxPriceLen == 4
MaxModels == 2
MaxFetches == 2
MaxClicks == 2
MaxCatalog == 3

SeqsUpTo(S, n) == UNION {[1..k -> S] : k \in 0..n}

\* --------------------------------------------------------------- constants
Null == -1000
One == 100
NullStr == "<null>"
NullObj == [null |-> TRUE]
ANTHROPIC_DEFAULT_MAX_TOKENS == 4096

EmptyObject == [k \in {} |-> << >>]

Truthy(n) == n # Null /\ n # 0

\* ----------------------------------------------------------------- strings
LBRACE == "{"
RBRACE == "}"
SLASH == "/"
WordElements == {"a", "b", "constructor", "openai"}

Str_Empty == << >>
Str_Hello == <<"Hello!">>
Str_Helpful == <<"You are helpful.">>
Str_OpenAiGpt4o == <<"openai", SLASH, "gpt-4o">>

\* undefined passed where a template string is expected: a value of the
\* string kind that no string equals
Undefined == <<"<undefined>">>

Placeholder(name) == <<LBRACE, LBRACE>> \o name \o <<RBRACE, RBRACE>>

VarNames == {<<"a">>, <<"b">>}

\* Object.prototype members seen through vars[key] on a plain object
ObjectPrototypeKeys == {<<"constructor">>}
ObjectPrototypeText(key) == <<"function Object() ", LBRACE, " [native code] ", RBRACE>>

\* ------------------------------------------------------- template resolver
RECURSIVE WordRunEnd(_, _)
WordRunEnd(s, i) ==
  IF i <= Len(s) /\ s[i] \in WordElements THEN WordRunEnd(s, i + 1) ELSE i

\* /\{\{(\w+)\}\}/ tried at position i: the index after the match, or 0
MatchEnd(s, i) ==
  IF i + 1 <= Len(s) /\ s[i] = LBRACE /\ s[i + 1] = LBRACE
  THEN LET j == WordRunEnd(s, i + 2)
       IN IF j > i + 2 /\ j + 1 <= Len(s) /\ s[j] = RBRACE /\ s[j + 1] = RBRACE
          THEN j + 2
          ELSE 0
  ELSE 0

\* (_, key) => vars[key] ?? `{{${key}}}`
Replacement(key, map) ==
  IF key \in DOMAIN map THEN map[key]
  ELSE IF key \in ObjectPrototypeKeys THEN ObjectPrototypeText(key)
  ELSE Placeholder(key)

RECURSIVE ReplaceFrom(_, _, _)
ReplaceFrom(s, i, map) ==
  IF i > Len(s) THEN << >>
  ELSE LET e == MatchEnd(s, i)
       IN IF e = 0
          THEN <<s[i]>> \o ReplaceFrom(s, i + 1, map)
          ELSE Replacement(SubSeq(s, i + 2, e - 3), map) \o ReplaceFrom(s, e, map)

\* variant: String.prototype.replace without the g flag (first match only)
resolveTemplate_firstOnly(template, map) ==
  IF template = << >> \/ template = Undefined THEN << >>
  ELSE LET starts == {i \in 1..Len(template) : MatchEnd(template, i) # 0}
       IN IF starts = {} THEN template
          ELSE LET i == CHOOSE k \in starts : \A l \in starts : k <= l
                   e == MatchEnd(template, i)
               IN SubSeq(template, 1, i - 1)
                  \o Replacement(SubSeq(template, i + 2, e - 3), map)
                  \o SubSeq(template, e, Len(template))

resolveTemplate(template, map) ==
  IF template = << >> \/ template = Undefined THEN << >>
  ELSE ReplaceFrom(template, 1, map)

\* the standalone bundle's resolveTemplate: if (!template) return template
StandaloneResolveTemplate(template, map) ==
  IF template = << >> \/ template = Undefined THEN template
  ELSE ReplaceFrom(template, 1, map)

\* template.match(/\{\{(\w+)\}\}/g) mapped through m.slice(2, -2)
RECURSIVE MatchNames(_, _)
MatchNames(s, i) ==
  IF i > Len(s) THEN << >>
  ELSE LET e == MatchEnd(s, i)
       IN IF e = 0 THEN MatchNames(s, i + 1)
          ELSE <<SubSeq(s, i + 2, e - 3)>> \o MatchNames(s, e)

\* [...new Set(names)]: insertion order, later duplicates dropped
RECURSIVE SetOrder(_, _)
SetOrder(names, kept) ==
  IF names = << >> THEN kept
  ELSE SetOrder(Tail(names),
                IF \E i \in 1..Len(kept) : kept[i] = Head(names) THEN kept
                ELSE Append(kept, Head(names)))

\* variant: the matches are returned without passing through a Set
extractTemplateVars_noSet(template) ==
  IF template = Undefined THEN << >> ELSE MatchNames(template, 1)

extractTemplateVars(template) ==
  IF template = Undefined THEN << >> ELSE SetOrder(MatchNames(template, 1), << >>)

\* the LangChain helper's private copy of the same extraction
extractVariables(template) ==
  IF template = Undefined THEN << >> ELSE SetOrder(MatchNames(template, 1), << >>)

\* template.replace(/\{\{(\w+)\}\}/g, '{$1}')
RECURSIVE ConvertFrom(_, _)
ConvertFrom(s, i) ==
  IF i > Len(s) THEN << >>
  ELSE LET e == MatchEnd(s, i)
       IN IF e = 0
          THEN <<s[i]>> \o ConvertFrom(s, i + 1)
          ELSE <<LBRACE>> \o SubSeq(s, i + 2, e - 3) \o <<RBRACE>> \o ConvertFrom(s, e)

\* variant: replace without the g flag (first match only)
convertTemplate_firstOnly(template) ==
  IF template = << >> \/ template = Undefined THEN << >>
  ELSE LET starts == {i \in 1..Len(template) : MatchEnd(template, i) # 0}
       IN IF starts = {} THEN template
          ELSE LET i == CHOOSE k \in starts : \A l \in starts : k <= l
                   e == MatchEnd(template, i)
               IN SubSeq(template, 1, i - 1)
                  \o <<LBRACE>> \o SubSeq(template, i + 2, e - 3) \o <<RBRACE>>
                  \o SubSeq(template, e, Len(template))

convertTemplate(template) ==
  IF template = << >> \/ template = Undefined THEN << >> ELSE ConvertFrom(template, 1)

toPromptTemplate(config) ==
  [systemTemplate |-> IF config.systemPrompt = Undefined THEN << >> ELSE config.systemPrompt,
   userTemplate |-> convertTemplate(config.userPromptTemplate),
   inputVariables |-> extractVariables(config.userPromptTemplate)]

\* { ...config.sampleInputs, ...variables }
mergedVars_swapped(sampleInputs, overrides) ==
  [k \in DOMAIN sampleInputs \cup DOMAIN overrides |->
     IF k \in DOMAIN sampleInputs THEN sampleInputs[k] ELSE overrides[k]]

mergedVars(sampleInputs, overrides) ==
  [k \in DOMAIN sampleInputs \cup DOMAIN overrides |->
     IF k \in DOMAIN overrides THEN overrides[k] ELSE sampleInputs[k]]

\* ------------------------------------------------------------ price helpers
\* A price string is a sequence of the elements "0", "3", ".", "e-6" (an
\* exponent suffix), "-" and "x" (a character no number contains).  A number
\* is NaN or a sign with the decimal digits before and after the point and a
\* power of ten; the digits are 0 and 3 only, so rounding to two places never
\* carries.
PriceDigits == {"0", "3"}
PriceElements == PriceDigits \cup {".", "e-6", "-", "x"}
NaN == [nan |-> TRUE]

RECURSIVE DigitRunEnd(_, _)
DigitRunEnd(s, i) ==
  IF i <= Len(s) /\ s[i] \in PriceDigits THEN DigitRunEnd(s, i + 1) ELSE i

\* parseFloat: the longest numeric prefix [-]digits[.digits][e-6], NaN when
\* it has no digit
parseFloat(s) ==
  LET i0 == IF Len(s) >= 1 /\ s[1] = "-" THEN 2 ELSE 1
      i1 == DigitRunEnd(s, i0)
      hasDot == i1 <= Len(s) /\ s[i1] = "."
      i2 == IF hasDot THEN DigitRunEnd(s, i1 + 1) ELSE i1
      int == SubSeq(s, i0, i1 - 1)
      frac == IF hasDot THEN SubSeq(s, i1 + 1, i2 - 1) ELSE << >>
      hasExp == i2 <= Len(s) /\ s[i2] = "e-6"
  IN IF int = << >> /\ frac = << >> THEN NaN
     ELSE [nan |-> FALSE, neg |-> i0 = 2, int |-> int, frac |-> frac,
           exp |-> IF hasExp THEN -6 ELSE 0]

IsZero(n) ==
  /\ \A i \in 1..Len(n.int) : n.int[i] = "0"
  /\ \A i \in 1..Len(n.frac) : n.frac[i] = "0"

\* n * 1_000_000: the decimal point moves six places to the right
TimesMillion(n) ==
  IF n.nan THEN NaN
  ELSE IF n.exp = -6 THEN [n EXCEPT !.exp = 0]
  ELSE LET padded == n.frac \o <<"0", "0", "0", "0", "0", "0">>
       IN [n EXCEPT !.int = n.int \o SubSeq(padded, 1, 6),
                    !.frac = SubSeq(n.frac, 7, Len(n.frac))]

\* p < 0.01 (false for NaN)
LessThanCent(p) ==
  /\ ~p.nan
  /\ \/ p.neg
     \/ /\ \A i \in 1..Len(p.int) : p.int[i] = "0"
        /\ \A i \in 1..2 : i <= Len(p.frac) => p.frac[i] = "0"

RECURSIVE StripZeros(_)
StripZeros(digits) ==
  IF digits = << >> THEN <<"0">>
  ELSE IF Head(digits) = "0" /\ Len(digits) > 1 THEN StripZeros(Tail(digits))
  ELSE digits

\* p.toFixed(2)
toFixed2(p) ==
  IF p.nan THEN <<"NaN">>
  ELSE (IF p.neg THEN <<"-">> ELSE << >>)
       \o StripZeros(p.int) \o <<".">> \o SubSeq(p.frac \o <<"0", "0">>, 1, 2)

formatPrice(priceStr) ==
  IF priceStr \in {Undefined, << >>, <<"0">>} THEN <<"free">>
  ELSE LET p == TimesMillion(parseFloat(priceStr))
       IN IF LessThanCent(p) THEN <<"<$0.01/M">>
          ELSE <<"$">> \o toFixed2(p) \o <<"/M">>

priceToCostPerMillion(priceStr) ==
  IF priceStr \in {Undefined, << >>, <<"0">>} THEN NullObj
  ELSE LET perToken == parseFloat(priceStr)
       IN IF perToken.nan \/ IsZero(perToken) THEN NullObj
          ELSE TimesMillion(perToken)

\* ------------------------------------------------------------ configuration
DEFAULT_CONFIG ==
  [ model |-> << >>,
    systemPrompt |-> << >>,
    userPromptTemplate |-> << >>,
    temperature |-> One,
    maxTokens |-> 4096,
    topP |-> One,
    topK |-> 0,
    frequencyPenalty |-> 0,
    presencePenalty |-> 0,
    repetitionPenalty |-> One,
    minP |-> 0,
    stopSequences |-> << >>,
    responseFormat |-> "text",
    jsonSchema |-> NullObj,
    tools |-> << >>,
    toolChoice |-> "auto",
    reasoning |-> FALSE,
    reasoningEffort |-> "medium",
    sampleInputs |-> EmptyObject,
    provider |-> << >> ]

\* ------------------------------------------------------- input domains
SystemPrompts == {Str_Empty, Str_Helpful, Str_Hello, Placeholder(<<"a">>)}

UserTemplates ==
  { Str_Empty,
    Str_Hello,
    Placeholder(<<"a">>),
    <<"Hi ">> \o Placeholder(<<"a">>) \o <<" ">> \o Placeholder(<<"b">>),
    Placeholder(<<"a">>) \o Placeholder(<<"a">>),
    <<LBRACE, LBRACE, " ", "a", " ", RBRACE, RBRACE>>,
    <<LBRACE, "a", RBRACE>>,
    Placeholder(<<"constructor">>) }

ModelIds == SeqsUpTo({"openai", SLASH, "gpt-4o"}, MaxModelLen)

Maps(values) == UNION {[D -> values] : D \in SUBSET VarNames}
SampleMaps == Maps({<< >>, <<"v">>})
VariableMaps == Maps({<<"w">>}) \cup {[k \in {<<"a">>} |-> << >>]}

Temperatures == {0, 70, One}
MaxTokenValues == {0, 2048, 4096}
TopPs == {0, 90, One}
TopKs == {0, 40}
Penalties == {0, -50}
RepetitionPenalties == {0, One, 110}
MinPs == {0, 5}
StopLists == SeqsUpTo({<<"END">>, <<"STOP">>}, MaxStops)

ResponseFormats == {"text", "json_object", "json_schema"}
Schema_test == [name |-> "test", schema |-> [type |-> "object"]]
JsonSchemas == {Schema_test, NullObj}
ToolChoices == {"auto", "none", "required"}
ReasoningEfforts == {"low", "medium", "high"}

Tool_weather ==
  [type |-> "function",
   function |-> [name |-> "get_weather", description |-> "Get weather",
                 parameters |-> [type |-> "object"]]]
Tool_bare ==
  [type |-> "function",
   function |-> [name |-> "test", description |-> "", parameters |-> NullObj]]
Tool_retrieval == [type |-> "retrieval", function |-> NullObj]
\* an entry the tools editor accepts: type "function" without a function object
Tool_nofn == [type |-> "function", function |-> NullObj]
ToolLists == SeqsUpTo({Tool_weather, Tool_bare, Tool_retrieval, Tool_nofn}, MaxTools)

\* ------------------------------------------------- OpenAI-compatible builder
Field(guard, key, val) == IF guard THEN key :> val ELSE EmptyObject

\* variant: the user entry is pushed before the system entry
OpenRouterMessages_userFirst(config, callVariables) ==
  LET resolvedUserPrompt ==
        resolveTemplate(config.userPromptTemplate,
                        mergedVars(config.sampleInputs, callVariables))
  IN (IF resolvedUserPrompt # << >>
      THEN <<[role |-> "user", content |-> resolvedUserPrompt]>> ELSE << >>)
     \o
     (IF config.systemPrompt # << >>
      THEN <<[role |-> "system", content |-> config.systemPrompt]>> ELSE << >>)

OpenRouterMessages(config, callVariables) ==
  LET resolvedUserPrompt ==
        resolveTemplate(config.userPromptTemplate,
                        mergedVars(config.sampleInputs, callVariables))
  IN (IF config.systemPrompt # << >>
      THEN <<[role |-> "system", content |-> config.systemPrompt]>> ELSE << >>)
     \o
     (IF resolvedUserPrompt # << >>
      THEN <<[role |-> "user", content |-> resolvedUserPrompt]>> ELSE << >>)

\* variant: temperature is elided at its default like top_p
OpenRouterSampling_elideDefaults(config) ==
     Field(config.temperature # Null /\ config.temperature # One,
           "temperature", config.temperature)
  @@ Field(Truthy(config.maxTokens), "max_tokens", config.maxTokens)
  @@ Field(config.topP # Null /\ config.topP # One, "top_p", config.topP)
  @@ Field(Truthy(config.topK), "top_k", config.topK)
  @@ Field(Truthy(config.frequencyPenalty), "frequency_penalty", config.frequencyPenalty)
  @@ Field(Truthy(config.presencePenalty), "presence_penalty", config.presencePenalty)
  @@ Field(Truthy(config.repetitionPenalty) /\ config.repetitionPenalty # One,
           "repetition_penalty", config.repetitionPenalty)
  @@ Field(Truthy(config.minP), "min_p", config.minP)
  @@ Field(Len(config.stopSequences) > 0, "stop", config.stopSequences)

OpenRouterSampling(config) ==
     Field(config.temperature # Null, "temperature", config.temperature)
  @@ Field(Truthy(config.maxTokens), "max_tokens", config.maxTokens)
  @@ Field(config.topP # Null /\ config.topP # One, "top_p", config.topP)
  @@ Field(Truthy(config.topK), "top_k", config.topK)
  @@ Field(Truthy(config.frequencyPenalty), "frequency_penalty", config.frequencyPenalty)
  @@ Field(Truthy(config.presencePenalty), "presence_penalty", config.presencePenalty)
  @@ Field(Truthy(config.repetitionPenalty) /\ config.repetitionPenalty # One,
           "repetition_penalty", config.repetitionPenalty)
  @@ Field(Truthy(config.minP), "min_p", config.minP)
  @@ Field(Len(config.stopSequences) > 0, "stop", config.stopSequences)

\* variant: json_schema is emitted without checking that a schema is there
OpenRouterResponseFormat_unchecked(config) ==
  IF config.responseFormat = "json_object"
  THEN "response_format" :> [type |-> "json_object"]
  ELSE IF config.responseFormat = "json_schema"
  THEN "response_format" :> [type |-> "json_schema", json_schema |-> config.jsonSchema]
  ELSE EmptyObject

OpenRouterResponseFormat(config) ==
  IF config.responseFormat = "json_object"
  THEN "response_format" :> [type |-> "json_object"]
  ELSE IF config.responseFormat = "json_schema" /\ config.jsonSchema # NullObj
  THEN "response_format" :> [type |-> "json_schema", json_schema |-> config.jsonSchema]
  ELSE EmptyObject

\* variant: tool_choice is set outside the tools block
OpenRouterTools_choiceOutside(config) ==
     Field(Len(config.tools) > 0, "tools", config.tools)
  @@ Field(config.toolChoice # "auto", "tool_choice", config.toolChoice)

OpenRouterTools(config) ==
  IF Len(config.tools) > 0
  THEN ("tools" :> config.tools)
       @@ Field(config.toolChoice # "auto", "tool_choice", config.toolChoice)
  ELSE EmptyObject

\* variant: the fallback uses ?? instead of ||
OpenRouterReasoning_nullish(config) ==
  Field(config.reasoning, "reasoning",
        [effort |-> IF config.reasoningEffort = NullStr
                    THEN "medium" ELSE config.reasoningEffort])

OpenRouterReasoning(config) ==
  Field(config.reasoning, "reasoning",
        [effort |-> IF config.reasoningEffort \in {NullStr, ""}
                    THEN "medium" ELSE config.reasoningEffort])

\* variant: the optional parameters are not added
toOpenRouterPayload_bare(config, callVariables) ==
     ("model" :> config.model)
  @@ ("messages" :> OpenRouterMessages(config, callVariables))
  @@ OpenRouterResponseFormat(config)
  @@ OpenRouterTools(config)
  @@ OpenRouterReasoning(config)

toOpenRouterPayload(config, callVariables) ==
     ("model" :> config.model)
  @@ ("messages" :> OpenRouterMessages(config, callVariables))
  @@ OpenRouterSampling(config)
  @@ OpenRouterResponseFormat(config)
  @@ OpenRouterTools(config)
  @@ OpenRouterReasoning(config)

\* --------------------------------------------------- Anthropic-style builder
RECURSIVE SplitFrom(_, _, _)
SplitFrom(s, i, segment) ==
  IF i > Len(s) THEN <<segment>>
  ELSE IF s[i] = SLASH THEN <<segment>> \o SplitFrom(s, i + 1, << >>)
  ELSE SplitFrom(s, i + 1, Append(segment, s[i]))

\* model.split('/')
Split(s) == SplitFrom(s, 1, << >>)

Includes(s, e) == \E i \in 1..Len(s) : s[i] = e

\* variant: split('/')[0] without the || 'unknown' fallback
getProvider_noFallback(modelId) == Split(modelId)[1]

\* modelId.split('/')[0] || 'unknown'
getProvider(modelId) ==
  LET first == Split(modelId)[1]
  IN IF first # << >> THEN first ELSE <<"unknown">>

\* variant: pop() without the || model fallback
AnthropicModel_noFallback(model) ==
  IF Includes(model, SLASH)
  THEN LET segments == Split(model) IN segments[Len(segments)]
  ELSE model

AnthropicModel(model) ==
  IF Includes(model, SLASH)
  THEN LET segments == Split(model)
           popped == segments[Len(segments)]
       IN IF popped # << >> THEN popped ELSE model
  ELSE model

\* variant: the system prompt is pushed into messages as for OpenRouter
AnthropicMessages_withSystem(config, callVariables) ==
  OpenRouterMessages(config, callVariables)

AnthropicMessages(config, callVariables) ==
  LET resolvedUserPrompt ==
        resolveTemplate(config.userPromptTemplate,
                        mergedVars(config.sampleInputs, callVariables))
  IN IF resolvedUserPrompt # << >>
     THEN <<[role |-> "user", content |-> resolvedUserPrompt]>> ELSE << >>

AnthropicSystem(config) ==
  Field(config.systemPrompt # << >>, "system", config.systemPrompt)

\* variant: max_tokens follows the OpenRouter rule and stop keeps its name
AnthropicSampling_asOpenRouter(config) ==
     Field(Truthy(config.maxTokens), "max_tokens", config.maxTokens)
  @@ Field(config.temperature # Null, "temperature", config.temperature)
  @@ Field(config.topP # Null /\ config.topP # One, "top_p", config.topP)
  @@ Field(Truthy(config.topK), "top_k", config.topK)
  @@ Field(Len(config.stopSequences) > 0, "stop", config.stopSequences)

AnthropicSampling(config) ==
     ("max_tokens" :> (IF Truthy(config.maxTokens) THEN config.maxTokens
                       ELSE ANTHROPIC_DEFAULT_MAX_TOKENS))
  @@ Field(config.temperature # Null, "temperature", config.temperature)
  @@ Field(config.topP # Null /\ config.topP # One, "top_p", config.topP)
  @@ Field(Truthy(config.topK), "top_k", config.topK)
  @@ Field(Len(config.stopSequences) > 0, "stop_sequences", config.stopSequences)

IsFunctionTool(t) == t.type = "function" /\ t.function # NullObj

\* variant: parameters is copied without the || {} fallback
ConvertTool_rawParameters(t) ==
  [name |-> t.function.name,
   description |-> IF t.function.description \in {"", NullStr} THEN "" ELSE t.function.description,
   input_schema |-> t.function.parameters]

ConvertTool(t) ==
  [name |-> t.function.name,
   description |-> IF t.function.description \in {"", NullStr} THEN "" ELSE t.function.description,
   input_schema |-> IF t.function.parameters = NullObj THEN EmptyObject ELSE t.function.parameters]

RECURSIVE MapTools(_)
MapTools(tools) ==
  IF tools = << >> THEN << >> ELSE <<ConvertTool(Head(tools))>> \o MapTools(Tail(tools))

convertTools(tools) == MapTools(SelectSeq(tools, IsFunctionTool))

\* variant: toolChoice is passed through as {type: toolChoice}
AnthropicTools_passThrough(config) ==
  IF Len(config.tools) > 0
  THEN ("tools" :> convertTools(config.tools))
       @@ (IF config.toolChoice # "auto"
           THEN "tool_choice" :> [type |-> config.toolChoice] ELSE EmptyObject)
  ELSE EmptyObject

AnthropicTools(config) ==
  IF Len(config.tools) > 0
  THEN ("tools" :> convertTools(config.tools))
       @@ (IF config.toolChoice = "required" THEN "tool_choice" :> [type |-> "any"]
           ELSE IF config.toolChoice = "none" THEN "tool_choice" :> [type |-> "none"]
           ELSE EmptyObject)
  ELSE EmptyObject

\* variant: the reasoning and response_format blocks of the OpenAI-compatible
\* builder are carried over
toAnthropicPayload_withReasoning(config, callVariables) ==
     ("model" :> AnthropicModel(config.model))
  @@ ("messages" :> AnthropicMessages(config, callVariables))
  @@ AnthropicSampling(config)
  @@ AnthropicSystem(config)
  @@ AnthropicTools(config)
  @@ OpenRouterResponseFormat(config)
  @@ OpenRouterReasoning(config)

toAnthropicPayload(config, callVariables) ==
     ("model" :> AnthropicModel(config.model))
  @@ ("messages" :> AnthropicMessages(config, callVariables))
  @@ AnthropicSampling(config)
  @@ AnthropicSystem(config)
  @@ AnthropicTools(config)

\* ------------------------------------------------------------------ state
\* value: the Configuration the component holds; variables: the override map
\* the host passes to a builder; result: the payload the latest builder call
\* returned for the current value and variables (fn = "none" once they change).
\* input: the argument of the next call of a string helper.  models,
\* modelsLoading, modelsError: the component's catalog state; pending: the
\* number of catalog fetches in flight.
NoResult == [fn |-> "none", payload |-> EmptyObject]

\* newest: whether the most recently started catalog fetch is still in flight
\* and, once it has completed, whether the catalog fields hold what it
\* resolved to, no fetch started before it having changed them since (shown).
NoFetch == [inFlight |-> FALSE, started |-> FALSE, shown |-> FALSE]

\* the catalog fields as their initialisers leave them, no fetch in flight
EmptyCatalog ==
  /\ models = << >>
  /\ modelsLoading = FALSE
  /\ modelsError = NullStr
  /\ pending = 0
  /\ newest = NoFetch

\* providerFilter, the search box, the provider select and the test section
\* as their initialisers leave them; clicks counts the clicks the Test button
\* has taken
ALL_PROVIDERS == <<"__all__">>
FreshPanel ==
  /\ providerFilter = << >>
  /\ modelSearch = << >>
  /\ selectedProvider = ALL_PROVIDERS
  /\ testResult = NullObj
  /\ testError = NullStr
  /\ testLoading = FALSE
  /\ clicks = 0

\* event: the event dispatched last since the latest edit
NoEvent == [type |-> "none"]

\* the editors' buffers (_toolsText, _schemaText and _stopSeqText, the three
\* fields of buffers) and the update flag as their initialisers leave them
\* and the debouncer idle.  timers: the time left on each timeout the
\* debouncer has pending; sinceEdit: the time since the latest edit; emitted:
\* the debounced prompt-change events since the latest edit; burst: whether
\* the latest edit came while a timeout was pending.
FreshEditor ==
  /\ buffers = [toolsText |-> << >>, schemaText |-> << >>, stopSeqText |-> << >>]
  /\ internalUpdate = FALSE
  /\ timers = {}
  /\ sinceEdit = 0
  /\ emitted = 0
  /\ burst = FALSE
  /\ event = NoEvent

FreshComponent == input = << >> /\ EmptyCatalog /\ FreshPanel /\ FreshEditor

\* ---- the text editors
\* the line break of the stop-sequences editor, and the whitespace
\* JSON.stringify(v, null, 2) puts between the entries of an array
NL == "<newline>"

RECURSIVE SplitLinesFrom(_, _, _)
SplitLinesFrom(s, i, line) ==
  IF i > Len(s) THEN <<line>>
  ELSE IF s[i] = NL THEN <<line>> \o SplitLinesFrom(s, i + 1, << >>)
  ELSE SplitLinesFrom(s, i + 1, Append(line, s[i]))

\* text.split('\n').filter(s => s.length > 0)
stopSequencesOf(text) == SelectSeq(SplitLinesFrom(text, 1, << >>), LAMBDA l : Len(l) > 0)

\* lines.join('\n')
RECURSIVE JoinLines(_)
JoinLines(lines) ==
  IF lines = << >> THEN << >>
  ELSE IF Len(lines) = 1 THEN lines[1]
  ELSE lines[1] \o <<NL>> \o JoinLines(Tail(lines))

\* the text of a JSON object is one element: as the user types it on one
\* line, and as JSON.stringify(v, null, 2) lays it out
CompactObjects ==
  ("{weather}" :> Tool_weather) @@ ("{bare}" :> Tool_bare)
  @@ ("{retrieval}" :> Tool_retrieval) @@ ("{nofn}" :> Tool_nofn)
  @@ ("{schema}" :> Schema_test)
PrettyObjects ==
  ("{ weather }" :> Tool_weather) @@ ("{ bare }" :> Tool_bare)
  @@ ("{ retrieval }" :> Tool_retrieval) @@ ("{ nofn }" :> Tool_nofn)
  @@ ("{ schema }" :> Schema_test)
JsonObjects == CompactObjects @@ PrettyObjects

\* JSON.stringify(o, null, 2) of an object
stringifyObject(o) == <<CHOOSE e \in DOMAIN PrettyObjects : PrettyObjects[e] = o>>

RECURSIVE stringifyEntries(_)
stringifyEntries(items) ==
  IF Len(items) = 1 THEN stringifyObject(items[1])
  ELSE stringifyObject(items[1]) \o <<",", NL>> \o stringifyEntries(Tail(items))

\* JSON.stringify(items, null, 2) of an array
stringifyArray(items) ==
  IF items = << >> THEN <<"[", "]">>
  ELSE <<"[", NL>> \o stringifyEntries(items) \o <<NL, "]">>

\* the entries of an array text between its brackets: values with commas
\* between them
ArrayEntries(s) ==
  /\ Len(s) = 0 \/ Len(s) % 2 = 1
  /\ \A i \in 1..Len(s) : IF i % 2 = 1 THEN s[i] \in DOMAIN JsonObjects ELSE s[i] = ","

\* JSON.parse(text): ok is FALSE where it throws
JSONparse(text) ==
  LET s == SelectSeq(text, LAMBDA e : e # NL)
      body == SubSeq(s, 2, Len(s) - 1)
  IN IF Len(s) = 1 /\ s[1] \in DOMAIN JsonObjects
       THEN [ok |-> TRUE, isArray |-> FALSE, parsed |-> JsonObjects[s[1]]]
     ELSE IF s = <<"null">>
       THEN [ok |-> TRUE, isArray |-> FALSE, parsed |-> NullObj]
     ELSE IF Len(s) >= 2 /\ s[1] = "[" /\ s[Len(s)] = "]" /\ ArrayEntries(body)
       THEN [ok |-> TRUE, isArray |-> TRUE,
             parsed |-> [i \in 1..((Len(body) + 1) \div 2) |-> JsonObjects[body[2 * i - 1]]]]
     ELSE [ok |-> FALSE, isArray |-> FALSE, parsed |-> NullObj]

\* _syncTextEditors
syncTextEditors(v) ==
  [toolsText |-> IF Len(v.tools) > 0 THEN stringifyArray(v.tools) ELSE << >>,
   schemaText |-> IF v.jsonSchema # NullObj THEN stringifyObject(v.jsonSchema) ELSE << >>,
   stopSeqText |-> JoinLines(v.stopSequences)]

\* updated(changed), run by Lit once the handler that assigned value has
\* returned: flag is this._internalUpdate as it is by then
updated(changedValue, flag, v, typed) ==
  IF changedValue /\ ~flag THEN syncTextEditors(v) ELSE typed

\* ---- the debouncer of prompt-change
DEBOUNCE_MS == 250

\* variant: the pending timeout is not cleared
debouncedChange_noClear(pendingTimers) == pendingTimers \cup {DEBOUNCE_MS}

\* _debouncedChange(): clearTimeout(timeoutId); timeoutId = setTimeout(fn, ms)
debouncedChange(pendingTimers) == {DEBOUNCE_MS}

\* _emitChange: the prompt-change event
promptChange(config) == [type |-> "prompt-change", detail |-> config]

Init ==
  /\ value = DEFAULT_CONFIG
  /\ variables = EmptyObject
  /\ result = NoResult
  /\ FreshComponent

\* _updateConfig: this.value = { ...this.value, ...patch }
updateConfig(config, field, v) == [config EXCEPT ![field] = v]

\* the rest of _updateConfig once value' is assigned, and the update cycle
\* the assignment queues: _internalUpdate is set before the assignment and
\* reset after it, the debouncer is restarted, and Lit runs updated() before
\* the next handler with the buffers as the handler left them (typed)
Edited(typed) ==
  /\ internalUpdate' = FALSE
  /\ buffers' = updated(TRUE, internalUpdate', value', typed)
  /\ timers' = debouncedChange(timers)
  /\ sinceEdit' = 0
  /\ emitted' = 0
  /\ burst' = (timers # {})
  /\ event' = NoEvent
  /\ UNCHANGED <<variables, catalog, panel>>

\* _onImport: this.value = { ...DEFAULT_CONFIG, ...parsed }
Import(files) ==
  /\ \E parsed \in files :
       value' = [k \in DOMAIN DEFAULT_CONFIG |->
                   IF k \in DOMAIN parsed THEN parsed[k] ELSE DEFAULT_CONFIG[k]]
  /\ result' = NoResult
  /\ buffers' = updated(TRUE, internalUpdate, value', buffers)
  /\ event' = promptChange(value')
  /\ UNCHANGED <<variables, input, catalog, panel,
                 internalUpdate, timers, sinceEdit, emitted, burst>>

SetSystemPrompt ==
  /\ \E s \in SystemPrompts : value' = updateConfig(value, "systemPrompt", s)
  /\ result' = NoResult
  /\ Edited(buffers)
  /\ UNCHANGED input

SetUserPromptTemplate ==
  /\ \E s \in UserTemplates : value' = updateConfig(value, "userPromptTemplate", s)
  /\ result' = NoResult
  /\ Edited(buffers)
  /\ UNCHANGED input

SetSampleInputs ==
  /\ \E m \in SampleMaps : value' = updateConfig(value, "sampleInputs", m)
  /\ result' = NoResult
  /\ Edited(buffers)
  /\ UNCHANGED input

SetModel ==
  /\ \E m \in ModelIds : value' = updateConfig(value, "model", m)
  /\ result' = NoResult
  /\ Edited(buffers)
  /\ UNCHANGED input

SetTemperature ==
  /\ \E n \in Temperatures : value' = updateConfig(value, "temperature", n)
  /\ result' = NoResult
  /\ Edited(buffers)
  /\ UNCHANGED input

SetMaxTokens ==
  /\ \E n \in MaxTokenValues : value' = updateConfig(value, "maxTokens", n)
  /\ result' = NoResult
  /\ Edited(buffers)
  /\ UNCHANGED input

SetTopP ==
  /\ \E n \in TopPs : value' = updateConfig(value, "topP", n)
  /\ result' = NoResult
  /\ Edited(buffers)
  /\ UNCHANGED input

SetTopK ==
  /\ \E n \in TopKs : value' = updateConfig(value, "topK", n)
  /\ result' = NoResult
  /\ Edited(buffers)
  /\ UNCHANGED input

SetFrequencyPenalty ==
  /\ \E n \in Penalties : value' = updateConfig(value, "frequencyPenalty", n)
  /\ result' = NoResult
  /\ Edited(buffers)
  /\ UNCHANGED input

SetPresencePenalty ==
  /\ \E n \in Penalties : value' = updateConfig(value, "presencePenalty", n)
  /\ result' = NoResult
  /\ Edited(buffers)
  /\ UNCHANGED input

SetRepetitionPenalty ==
  /\ \E n \in RepetitionPenalties : value' = updateConfig(value, "repetitionPenalty", n)
  /\ result' = NoResult
  /\ Edited(buffers)
  /\ UNCHANGED input

SetMinP ==
  /\ \E n \in MinPs : value' = updateConfig(value, "minP", n)
  /\ result' = NoResult
  /\ Edited(buffers)
  /\ UNCHANGED input

SetStopSequences ==
  /\ \E l \in StopLists : value' = updateConfig(value, "stopSequences", l)
  /\ result' = NoResult
  /\ Edited(buffers)
  /\ UNCHANGED input

SetResponseFormat ==
  /\ \E f \in ResponseFormats : value' = updateConfig(value, "responseFormat", f)
  /\ result' = NoResult
  /\ Edited(buffers)
  /\ UNCHANGED input

SetJsonSchema ==
  /\ \E j \in JsonSchemas : value' = updateConfig(value, "jsonSchema", j)
  /\ result' = NoResult
  /\ Edited(buffers)
  /\ UNCHANGED input

SetTools ==
  /\ \E l \in ToolLists : value' = updateConfig(value, "tools", l)
  /\ result' = NoResult
  /\ Edited(buffers)
  /\ UNCHANGED input

SetToolChoice ==
  /\ \E c \in ToolChoices : value' = updateConfig(value, "toolChoice", c)
  /\ result' = NoResult
  /\ Edited(buffers)
  /\ UNCHANGED input

SetReasoning ==
  /\ \E r \in BOOLEAN : value' = updateConfig(value, "reasoning", r)
  /\ result' = NoResult
  /\ Edited(buffers)
  /\ UNCHANGED input

SetReasoningEffort ==
  /\ \E e \in ReasoningEfforts : value' = updateConfig(value, "reasoningEffort", e)
  /\ result' = NoResult
  /\ Edited(buffers)
  /\ UNCHANGED input

\* the host chooses the variables argument of its next builder call
SetVariables ==
  /\ \E m \in VariableMaps : variables' = m
  /\ result' = NoResult
  /\ UNCHANGED <<value, rest>>

CallOpenRouter ==
  /\ result' = [fn |-> "openrouter", payload |-> toOpenRouterPayload(value, variables)]
  /\ UNCHANGED <<value, variables, rest>>

CallAnthropic ==
  /\ result' = [fn |-> "anthropic", payload |-> toAnthropicPayload(value, variables)]
  /\ UNCHANGED <<value, variables, rest>>

CallGetProvider ==
  /\ result' = [fn |-> "getProvider", payload |-> getProvider(value.model)]
  /\ UNCHANGED <<value, variables, rest>>

\* JSON files the import dialog may be given
PromptFiles ==
  { EmptyObject,
    ("systemPrompt" :> Str_Helpful) @@ ("userPromptTemplate" :> Str_Hello)
       @@ ("model" :> Str_OpenAiGpt4o) }
SamplingFiles ==
  { "temperature" :> Null, "topP" :> Null, "maxTokens" :> Null, "topK" :> Null }
OptionFiles ==
  { "reasoningEffort" :> "", "reasoningEffort" :> NullStr,
    ("responseFormat" :> "json_schema") @@ ("jsonSchema" :> NullObj) }

\* a file that sets every field the Anthropic-style builder reads
FullFiles ==
  { EmptyObject,
    ("systemPrompt" :> Str_Helpful) @@ ("userPromptTemplate" :> Str_Hello)
       @@ ("model" :> Str_OpenAiGpt4o) @@ ("temperature" :> 70) @@ ("topP" :> 90)
       @@ ("topK" :> 40) @@ ("stopSequences" :> <<(<<"END">>)>>)
       @@ ("tools" :> <<Tool_weather>>) @@ ("toolChoice" :> "required") }

\* prompts, sample inputs and call-time variables
NextPrompt ==
  \/ SetSystemPrompt \/ SetUserPromptTemplate \/ SetSampleInputs
  \/ SetVariables \/ Import(PromptFiles)
  \/ CallOpenRouter \/ CallAnthropic
SpecPrompt == Init /\ [][NextPrompt]_vars

\* model id and prompts
NextModel ==
  \/ SetModel \/ SetSystemPrompt \/ SetUserPromptTemplate \/ Import(PromptFiles)
  \/ CallOpenRouter \/ CallAnthropic \/ CallGetProvider
SpecModel == Init /\ [][NextModel]_vars

\* sampling parameters
NextSampling ==
  \/ SetTemperature \/ SetMaxTokens \/ SetTopP \/ SetTopK
  \/ SetFrequencyPenalty \/ SetPresencePenalty \/ SetRepetitionPenalty
  \/ SetMinP \/ SetStopSequences \/ Import(SamplingFiles)
  \/ CallOpenRouter \/ CallAnthropic
SpecSampling == Init /\ [][NextSampling]_vars

\* response format, tools and reasoning
NextOptions ==
  \/ SetResponseFormat \/ SetJsonSchema \/ SetTools \/ SetToolChoice
  \/ SetReasoning \/ SetReasoningEffort \/ Import(OptionFiles)
  \/ CallOpenRouter \/ CallAnthropic
SpecOptions == Init /\ [][NextOptions]_vars

\* ---- the template helpers called on their own
\* pieces a template is put together from: well-formed placeholders, an
\* inherited-property name, stray double braces, single braces, whitespace
\* inside the braces, plain text
Chunks ==
  { Placeholder(<<"a">>), Placeholder(<<"b">>), Placeholder(<<"constructor">>),
    <<LBRACE, LBRACE>>, <<RBRACE, RBRACE>>,
    <<LBRACE, "a", RBRACE>>,
    <<LBRACE, LBRACE, " ", "a", " ", RBRACE, RBRACE>>,
    <<"Hi ">> }

RECURSIVE Concat(_)
Concat(chunks) == IF chunks = << >> THEN << >> ELSE Head(chunks) \o Concat(Tail(chunks))

Templates == {Concat(c) : c \in SeqsUpTo(Chunks, MaxChunks)} \cup {Undefined}

TemplateMaps ==
  { EmptyObject,
    <<"a">> :> <<"v">>,
    (<<"a">> :> <<"v">>) @@ (<<"b">> :> <<"w">>),
    (<<"a">> :> << >>) @@ (<<"b">> :> <<"w">>),
    (<<"a">> :> Placeholder(<<"b">>)) @@ (<<"b">> :> <<"w">>),
    (<<"a">> :> <<"a">>) @@ (<<"b">> :> <<"w">>),
    (<<"a">> :> <<"v">>) @@ (<<"b">> :> <<"w">>) @@ (<<"constructor">> :> <<"c">>) }

\* a template and a variables map for the resolver
InitResolve ==
  /\ \E t \in Templates : value = [DEFAULT_CONFIG EXCEPT !.userPromptTemplate = t]
  /\ variables \in TemplateMaps
  /\ result = NoResult
  /\ FreshComponent

\* a Configuration with a system prompt and a user template for the extractors
InitExtract ==
  /\ \E s \in {Str_Empty, Placeholder(<<"a">>)}, t \in Templates :
       value = [DEFAULT_CONFIG EXCEPT !.systemPrompt = s, !.userPromptTemplate = t]
  /\ variables = EmptyObject
  /\ result = NoResult
  /\ FreshComponent

CallResolveTemplate ==
  /\ result' = [fn |-> "resolveTemplate",
                payload |-> resolveTemplate(value.userPromptTemplate, variables)]
  /\ UNCHANGED <<value, variables, rest>>

\* the caller resolves the text it got back once more with the same map
CallResolveAgain ==
  /\ result.fn = "resolveTemplate"
  /\ result' = [fn |-> "resolveAgain",
                payload |-> resolveTemplate(result.payload, variables),
                previous |-> result.payload]
  /\ UNCHANGED <<value, variables, rest>>

CallStandaloneResolveTemplate ==
  /\ result' = [fn |-> "standaloneResolveTemplate",
                payload |-> StandaloneResolveTemplate(value.userPromptTemplate, variables)]
  /\ UNCHANGED <<value, variables, rest>>

CallExtractTemplateVars ==
  /\ result' = [fn |-> "extractTemplateVars",
                payload |-> extractTemplateVars(value.userPromptTemplate)]
  /\ UNCHANGED <<value, variables, rest>>

CallToPromptTemplate ==
  /\ result' = [fn |-> "toPromptTemplate", payload |-> toPromptTemplate(value)]
  /\ UNCHANGED <<value, variables, rest>>

NextResolve ==
  \/ CallResolveTemplate \/ CallResolveAgain \/ CallStandaloneResolveTemplate
SpecResolve == InitResolve /\ [][NextResolve]_vars

NextExtract == CallExtractTemplateVars \/ CallToPromptTemplate
SpecExtract == InitExtract /\ [][NextExtract]_vars

\* ---- the price helpers called on a price string of the catalog
PriceStrings == SeqsUpTo(PriceElements, MaxPriceLen) \cup {Undefined}

InitPrice ==
  /\ value = DEFAULT_CONFIG
  /\ variables = EmptyObject
  /\ result = NoResult
  /\ input \in PriceStrings
  /\ EmptyCatalog /\ FreshPanel /\ FreshEditor

CallFormatPrice ==
  /\ result' = [fn |-> "formatPrice", payload |-> formatPrice(input)]
  /\ UNCHANGED <<value, variables, rest>>

CallPriceToCostPerMillion ==
  /\ result' = [fn |-> "priceToCostPerMillion", payload |-> priceToCostPerMillion(input)]
  /\ UNCHANGED <<value, variables, rest>>

NextPrice == CallFormatPrice \/ CallPriceToCostPerMillion
SpecPrice == InitPrice /\ [][NextPrice]_vars

\* ---- the model catalog and the dimming of unsupported controls
\* ModelDescriptors as the catalog may return them: supported_parameters
\* listed, listed under another spelling, absent, and empty
Model_gpt4o ==
  [id |-> Str_OpenAiGpt4o, name |-> "GPT-4o",
   supported_parameters |-> <<"temperature", "top_p", "tools", "response_format">>]
Model_bare ==
  [id |-> <<"gpt-4o">>, name |-> "Bare",
   supported_parameters |-> <<"structured_outputs", "Temperature">>]
Model_unlisted == [id |-> <<"openai">>, name |-> "OpenAI"]
Model_empty ==
  [id |-> <<"openai", SLASH>>, name |-> "Empty", supported_parameters |-> << >>]
Descriptors == {Model_gpt4o, Model_bare, Model_unlisted, Model_empty}

\* a.name.localeCompare(b.name) < 0
NameOrder == <<"Bare", "Claude", "Empty", "GPT-4o", "OpenAI">>
NameRank(name) == CHOOSE i \in 1..Len(NameOrder) : NameOrder[i] = name
ComesBefore(a, b) == NameRank(a.name) < NameRank(b.name)

\* Array.prototype.sort with that comparison (stable)
RECURSIVE SortByName(_)
SortByName(ms) ==
  IF ms = << >> THEN << >>
  ELSE LET sortedTail == SortByName(Tail(ms))
           before == SelectSeq(sortedTail, LAMBDA m : ComesBefore(m, Head(ms)))
           after == SelectSeq(sortedTail, LAMBDA m : ~ComesBefore(m, Head(ms)))
       IN before \o <<Head(ms)>> \o after

\* what fetchOpenRouterModels resolves to: the sorted catalog, or no models
\* and the error's message
FetchResults ==
  {[models |-> SortByName(data), error |-> NullStr] : data \in SeqsUpTo(Descriptors, MaxModels)}
  \cup {[models |-> << >>, error |-> "HTTP 500"]}

\* this._models.find((m) => m.id === this.value?.model)
selectedModel(ms, config) ==
  LET hits == {i \in 1..Len(ms) : ms[i].id = config.model}
  IN IF hits = {} THEN NullObj
     ELSE ms[CHOOSE i \in hits : \A j \in hits : i <= j]

\* this._selectedModel?.supported_parameters || []
supportedParams(ms, config) ==
  LET m == selectedModel(ms, config)
  IN IF m = NullObj THEN << >>
     ELSE IF "supported_parameters" \in DOMAIN m THEN m.supported_parameters
     ELSE << >>

\* variant: an empty list means nothing is supported
has_failClosed(sp, p) == Includes(sp, p)

\* (p) => !sp.length || sp.includes(p)
has(sp, p) == Len(sp) = 0 \/ Includes(sp, p)

hasStructured(sp) ==
  Len(sp) = 0 \/ Includes(sp, "structured_outputs") \/ Includes(sp, "response_format")
hasTools(sp) == has(sp, "tools")
hasReasoning(sp) == has(sp, "reasoning")

\* the controls of _renderParameters, by wire name
ParameterControls ==
  {"temperature", "max_tokens", "top_p", "top_k", "min_p", "frequency_penalty",
   "presence_penalty", "repetition_penalty", "stop"}
Controls == ParameterControls \cup {"response_format", "tools", "reasoning"}

\* the controls a render gives the class not-supported
notSupported(ms, config) ==
  LET sp == supportedParams(ms, config)
  IN   {p \in ParameterControls : ~has(sp, p)}
     \cup (IF hasStructured(sp) THEN {} ELSE {"response_format"})
     \cup (IF hasTools(sp) THEN {} ELSE {"tools"})
     \cup (IF hasReasoning(sp) THEN {} ELSE {"reasoning"})

\* _fetchModels up to its await, called by connectedCallback, which then
\* calls _syncTextEditors, or by the Retry button
FetchModels ==
  /\ pending < MaxFetches
  /\ modelsLoading' = TRUE
  /\ modelsError' = NullStr
  /\ pending' = pending + 1
  /\ newest' = [inFlight |-> TRUE, started |-> TRUE, shown |-> FALSE]
  /\ result' = NoResult
  /\ \E caller \in {"connectedCallback", "Retry"} :
       buffers' = IF caller = "connectedCallback" THEN syncTextEditors(value) ELSE buffers
  /\ UNCHANGED <<value, variables, input, models, panel,
                 internalUpdate, timers, sinceEdit, emitted, burst, event>>

\* _fetchModels after its await, for one of the fetches in flight: the most
\* recently started one (isNewest) or one started before it
FetchModelsDone ==
  /\ pending > 0
  /\ \E isNewest \in {b \in BOOLEAN : IF b THEN newest.inFlight
                                        ELSE pending > (IF newest.inFlight THEN 1 ELSE 0)},
        r \in FetchResults :
       /\ models' = r.models
       /\ modelsError' = r.error
       /\ newest' =
            IF isNewest THEN [inFlight |-> FALSE, started |-> TRUE, shown |-> TRUE]
            ELSE [newest EXCEPT !.shown = @ /\ r.models = models /\ r.error = modelsError]
  /\ modelsLoading' = FALSE
  /\ pending' = pending - 1
  /\ result' = NoResult
  /\ UNCHANGED <<value, variables, input, panel, editor>>

\* render: the set of controls drawn as not supported
Render ==
  /\ result' = [fn |-> "render", payload |-> notSupported(models, value)]
  /\ UNCHANGED <<value, variables, rest>>

\* the model dropdown or a row of the model list: one of the catalog's models
PickModel ==
  /\ ~modelsLoading
  /\ \E i \in 1..Len(models) : value' = updateConfig(value, "model", models[i].id)
  /\ result' = NoResult
  /\ Edited(buffers)
  /\ UNCHANGED input

NextCatalog == FetchModels \/ FetchModelsDone \/ PickModel \/ Render
SpecCatalog == Init /\ [][NextCatalog]_vars

\* ---- the provider grouping and the filtered model list
Model_claude ==
  [id |-> <<"anthropic", SLASH, "claude">>, name |-> "Claude",
   supported_parameters |-> <<"temperature">>]
ListDescriptors == {Model_gpt4o, Model_claude, Model_bare}

\* m.id.split('/')[0]
prefixOf(m) == Split(m.id)[1]

\* the number of models seen with the prefix
countOf(ms, prefix) == Cardinality({i \in 1..Len(ms) : prefixOf(ms[i]) = prefix})

\* [...seen.entries()]: a [prefix, count] pair per prefix, in the order the
\* prefixes were first seen
seenEntries(ms) ==
  LET prefixes == SetOrder([i \in 1..Len(ms) |-> prefixOf(ms[i])], << >>)
  IN [i \in 1..Len(prefixes) |-> <<prefixes[i], countOf(ms, prefixes[i])>>]

\* entries.sort((a, b) => b[1] - a[1]) (stable)
RECURSIVE SortByCount(_)
SortByCount(entries) ==
  IF entries = << >> THEN << >>
  ELSE LET sortedTail == SortByCount(Tail(entries))
           before == SelectSeq(sortedTail, LAMBDA e : e[2] > Head(entries)[2])
           after == SelectSeq(sortedTail, LAMBDA e : ~(e[2] > Head(entries)[2]))
       IN before \o <<Head(entries)>> \o after

\* variant: the allow-list is not applied
availableProviders_all(ms, filter) == SortByCount(seenEntries(ms))

\* _availableProviders
availableProviders(ms, filter) ==
  SortByCount(IF Len(filter) > 0
              THEN SelectSeq(seenEntries(ms), LAMBDA e : Includes(filter, e[1]))
              ELSE seenEntries(ms))

\* s.toLowerCase(), element by element
LowerCase(e) ==
  CASE e = "GPT-4o" -> "gpt-4o"
    [] e = "Claude" -> "claude"
    [] e = "Bare" -> "bare"
    [] OTHER -> e
toLowerCase(s) == [i \in 1..Len(s) |-> LowerCase(s[i])]

\* s.trim()
trim(s) ==
  LET inked == {i \in 1..Len(s) : s[i] # " "}
  IN IF inked = {} THEN << >>
     ELSE SubSeq(s, CHOOSE i \in inked : \A j \in inked : i <= j,
                    CHOOSE i \in inked : \A j \in inked : i >= j)

\* s.includes(q) and s.startsWith(q)
includes(s, q) == \E i \in 0..(Len(s) - Len(q)) : SubSeq(s, i + 1, i + Len(q)) = q
startsWith(s, q) == Len(q) <= Len(s) /\ SubSeq(s, 1, Len(q)) = q

\* the text search both variants of _filteredModels end with
textSearch(ms, search) ==
  IF trim(search) # << >>
  THEN LET q == toLowerCase(search)
       IN SelectSeq(ms, LAMBDA m : \/ includes(toLowerCase(m.id), q)
                                   \/ includes(toLowerCase(<<m.name>>), q))
  ELSE ms

\* _filteredModels of the variant with a provider dropdown
filteredModels(ms, config, search) ==
  textSearch(IF config.provider # << >>
             THEN SelectSeq(ms, LAMBDA m : startsWith(m.id, config.provider \o <<SLASH>>))
             ELSE ms,
             search)

\* _filteredModels of the sectioned variant
sectionedFilteredModels(ms, filter, selected, search) ==
  LET providerFilters == IF Len(filter) > 0 THEN filter
                         ELSE IF selected # ALL_PROVIDERS THEN <<selected>> ELSE << >>
  IN textSearch(IF Len(providerFilters) > 0
                THEN SelectSeq(ms, LAMBDA m : Includes(providerFilters, prefixOf(m)))
                ELSE ms,
                search)

\* a catalog has been fetched
ListCatalogs == {SortByName(c) : c \in SeqsUpTo(ListDescriptors, MaxCatalog)}
InitList ==
  /\ value = DEFAULT_CONFIG
  /\ variables = EmptyObject
  /\ result = NoResult
  /\ input = << >>
  /\ models \in ListCatalogs
  /\ modelsLoading = FALSE
  /\ modelsError = NullStr
  /\ pending = 0
  /\ newest = [inFlight |-> FALSE, started |-> TRUE, shown |-> TRUE]
  /\ FreshPanel
  /\ FreshEditor

\* the host sets the providerFilter property
ProviderFilters ==
  {<< >>, <<(<<"openai">>)>>, <<(<<"anthropic">>), (<<"openai">>)>>, <<(<<"google">>)>>}
SetProviderFilter ==
  /\ \E f \in ProviderFilters : providerFilter' = f
  /\ result' = NoResult
  /\ UNCHANGED <<value, variables, input, catalog, editor, modelSearch, selectedProvider,
                 testResult, testError, testLoading, clicks>>

\* the search box
Queries ==
  {<< >>, <<" ">>, <<"gpt-4o">>, <<"GPT-4o">>, <<"claude">>, <<"openai", SLASH>>,
   <<" ", "gpt-4o">>, <<"mistral">>}
SetModelSearch ==
  /\ \E q \in Queries : modelSearch' = q
  /\ result' = NoResult
  /\ UNCHANGED <<value, variables, input, catalog, editor, providerFilter, selectedProvider,
                 testResult, testError, testLoading, clicks>>

\* the provider select of the sectioned variant, drawn while there is no
\* providerFilter
SelectProvider ==
  /\ Len(providerFilter) = 0
  /\ \E p \in {ALL_PROVIDERS} \cup {prefixOf(models[i]) : i \in 1..Len(models)} :
       selectedProvider' = p
  /\ result' = NoResult
  /\ UNCHANGED <<value, variables, input, catalog, editor, providerFilter, modelSearch,
                 testResult, testError, testLoading, clicks>>

\* _onProviderChange, with one of the options of the provider dropdown
OnProviderChange ==
  /\ \E p \in {<< >>} \cup {availableProviders(models, providerFilter)[i][1] :
                               i \in 1..Len(availableProviders(models, providerFilter))} :
       value' = updateConfig(updateConfig(value, "provider", p), "model", << >>)
  /\ result' = NoResult
  /\ Edited(buffers)
  /\ UNCHANGED input

\* files a Configuration was exported to with a provider chosen
ProviderFiles == {"provider" :> <<"anthropic">>, "provider" :> <<"openai">>}

RenderProviderDropdown ==
  /\ ~modelsLoading
  /\ result' = [fn |-> "renderProviderDropdown",
                payload |-> availableProviders(models, providerFilter)]
  /\ UNCHANGED <<value, variables, rest>>

\* _renderModelDropdown lists models once a provider is chosen
RenderModelDropdown ==
  /\ ~modelsLoading
  /\ value.provider # << >>
  /\ result' = [fn |-> "renderModelDropdown",
                payload |-> filteredModels(models, value, modelSearch)]
  /\ UNCHANGED <<value, variables, rest>>

\* _renderModelSelector lists models once the catalog is there (the first
\* hundred of them, which the catalogs here stay below)
RenderModelSelector ==
  /\ ~modelsLoading
  /\ modelsError = NullStr
  /\ result' = [fn |-> "renderModelSelector",
                payload |-> sectionedFilteredModels(models, providerFilter,
                                                    selectedProvider, modelSearch)]
  /\ UNCHANGED <<value, variables, rest>>

NextList ==
  \/ SetProviderFilter \/ SetModelSearch \/ SelectProvider \/ OnProviderChange
  \/ Import(ProviderFiles)
  \/ RenderProviderDropdown \/ RenderModelDropdown \/ RenderModelSelector
SpecList == InitList /\ [][NextList]_vars

\* ---- time and the debounced prompt-change
\* 50 ms pass; no time passes beyond a timeout that is due
Tick ==
  /\ timers # {}
  /\ \A t \in timers : t > 0
  /\ timers' = {t - 50 : t \in timers}
  /\ sinceEdit' = sinceEdit + 50
  /\ UNCHANGED <<value, variables, result, input, catalog, panel,
                 buffers, internalUpdate,
                 emitted, burst, event>>

\* a timeout of the debouncer is due: its callback calls _emitChange
Fire ==
  /\ 0 \in timers
  /\ timers' = timers \ {0}
  /\ event' = promptChange(value)
  /\ emitted' = emitted + 1
  /\ UNCHANGED <<value, variables, result, input, catalog, panel,
                 buffers, internalUpdate,
                 sinceEdit, burst>>

NextDebounce ==
  \/ SetReasoning \/ SetToolChoice \/ Import(PromptFiles)
  \/ Tick \/ Fire
SpecDebounce == Init /\ [][NextDebounce]_vars

\* time passes and a due timeout is run by the event loop
SpecDebounceLive == SpecDebounce /\ WF_vars(Tick) /\ WF_vars(Fire)

\* ---- the test section
\* what the host hands to setTestResult and setTestError: a string is held
\* in the field string, an Error in the field message, null is NullObj
TestResults == {[string |-> "Hello!"], [string |-> ""], [choices |-> 1]}
TestErrors == {[string |-> "boom"], [string |-> ""], [message |-> "HTTP 500"],
               [message |-> ""], NullObj}

setTestResult(r) == [testLoading |-> FALSE, testError |-> NullStr, testResult |-> r]

\* typeof error === 'string' ? error : error?.message || String(error)
errorText(error) ==
  IF "string" \in DOMAIN error THEN error.string
  ELSE IF "message" \in DOMAIN error /\ error.message # "" THEN error.message
  ELSE IF error = NullObj THEN "null" ELSE "Error"

setTestError(error) ==
  [testLoading |-> FALSE, testResult |-> NullObj, testError |-> errorText(error)]

\* variant: the previous result and error are kept while loading
setTestLoading_keeps(loading, r, e) ==
  [testLoading |-> loading, testResult |-> r, testError |-> e]

\* setTestLoading(loading) with _testResult = r and _testError = e
setTestLoading(loading, r, e) ==
  [testLoading |-> loading,
   testResult |-> IF loading THEN NullObj ELSE r,
   testError |-> IF loading THEN NullStr ELSE e]

\* the host calls one of the three methods: shown is what the method leaves,
\* call the method, its argument and what was shown before
Shown(shown, call) ==
  /\ testLoading' = shown.testLoading
  /\ testResult' = shown.testResult
  /\ testError' = shown.testError
  /\ result' = call
  /\ UNCHANGED <<value, variables, input, catalog, editor,
                 providerFilter, modelSearch, selectedProvider, clicks>>

Before == [testResult |-> testResult, testError |-> testError]

SetTestResult ==
  \E r \in TestResults :
    Shown(setTestResult(r), [fn |-> "setTestResult", payload |-> r, previous |-> Before])

SetTestError ==
  \E error \in TestErrors :
    Shown(setTestError(error),
          [fn |-> "setTestError", payload |-> error, previous |-> Before])

SetTestLoading ==
  \E loading \in BOOLEAN :
    Shown(setTestLoading(loading, testResult, testError),
          [fn |-> "setTestLoading", payload |-> loading, previous |-> Before])

\* variant: the button stays enabled while a test is loading
disabled_whileIdle(v, loading) ==
  v.model = << >> \/ (v.systemPrompt = << >> /\ v.userPromptTemplate = << >>)

\* _renderTestSection: noModel || noPrompt || this._testLoading
disabled(v, loading) ==
  v.model = << >> \/ (v.systemPrompt = << >> /\ v.userPromptTemplate = << >>) \/ loading

\* variant: the template is sent as it is written
onTest_unresolved(v) ==
  LET resolvedUserPrompt == v.userPromptTemplate
      messages ==
        (IF v.systemPrompt # << >>
         THEN <<[role |-> "system", content |-> v.systemPrompt]>> ELSE << >>)
        \o (IF resolvedUserPrompt # << >>
            THEN <<[role |-> "user", content |-> resolvedUserPrompt]>> ELSE << >>)
      payload ==
           ("model" :> v.model) @@ ("messages" :> messages)
        @@ Field(v.temperature # Null, "temperature", v.temperature)
        @@ Field(Truthy(v.maxTokens), "max_tokens", v.maxTokens)
        @@ Field(v.topP # Null /\ v.topP # One, "top_p", v.topP)
        @@ Field(Truthy(v.topK), "top_k", v.topK)
        @@ Field(Truthy(v.frequencyPenalty), "frequency_penalty", v.frequencyPenalty)
        @@ Field(Truthy(v.presencePenalty), "presence_penalty", v.presencePenalty)
        @@ Field(Truthy(v.repetitionPenalty) /\ v.repetitionPenalty # One,
                 "repetition_penalty", v.repetitionPenalty)
        @@ Field(Truthy(v.minP), "min_p", v.minP)
        @@ Field(Len(v.stopSequences) > 0, "stop", v.stopSequences)
        @@ (IF v.responseFormat = "json_object"
            THEN "response_format" :> [type |-> "json_object"]
            ELSE IF v.responseFormat = "json_schema" /\ v.jsonSchema # NullObj
            THEN "response_format" :> [type |-> "json_schema", json_schema |-> v.jsonSchema]
            ELSE EmptyObject)
        @@ (IF Len(v.tools) > 0
            THEN ("tools" :> v.tools)
                 @@ Field(v.toolChoice # "auto", "tool_choice", v.toolChoice)
            ELSE EmptyObject)
        @@ Field(v.reasoning, "reasoning",
                 [effort |-> IF v.reasoningEffort \in {NullStr, ""}
                             THEN "medium" ELSE v.reasoningEffort])
  IN [type |-> "prompt-test", config |-> v, payload |-> payload,
      resolvedMessages |-> messages]

\* _onTest: the prompt-test event it dispatches
onTest(v) ==
  LET sampleInputs == v.sampleInputs
      resolvedUserPrompt == resolveTemplate(v.userPromptTemplate, sampleInputs)
      messages ==
        (IF v.systemPrompt # << >>
         THEN <<[role |-> "system", content |-> v.systemPrompt]>> ELSE << >>)
        \o (IF resolvedUserPrompt # << >>
            THEN <<[role |-> "user", content |-> resolvedUserPrompt]>> ELSE << >>)
      payload ==
           ("model" :> v.model) @@ ("messages" :> messages)
        @@ Field(v.temperature # Null, "temperature", v.temperature)
        @@ Field(Truthy(v.maxTokens), "max_tokens", v.maxTokens)
        @@ Field(v.topP # Null /\ v.topP # One, "top_p", v.topP)
        @@ Field(Truthy(v.topK), "top_k", v.topK)
        @@ Field(Truthy(v.frequencyPenalty), "frequency_penalty", v.frequencyPenalty)
        @@ Field(Truthy(v.presencePenalty), "presence_penalty", v.presencePenalty)
        @@ Field(Truthy(v.repetitionPenalty) /\ v.repetitionPenalty # One,
                 "repetition_penalty", v.repetitionPenalty)
        @@ Field(Truthy(v.minP), "min_p", v.minP)
        @@ Field(Len(v.stopSequences) > 0, "stop", v.stopSequences)
        @@ (IF v.responseFormat = "json_object"
            THEN "response_format" :> [type |-> "json_object"]
            ELSE IF v.responseFormat = "json_schema" /\ v.jsonSchema # NullObj
            THEN "response_format" :> [type |-> "json_schema", json_schema |-> v.jsonSchema]
            ELSE EmptyObject)
        @@ (IF Len(v.tools) > 0
            THEN ("tools" :> v.tools)
                 @@ Field(v.toolChoice # "auto", "tool_choice", v.toolChoice)
            ELSE EmptyObject)
        @@ Field(v.reasoning, "reasoning",
                 [effort |-> IF v.reasoningEffort \in {NullStr, ""}
                             THEN "medium" ELSE v.reasoningEffort])
  IN [type |-> "prompt-test", config |-> v, payload |-> payload,
      resolvedMessages |-> messages]

\* a click on the Test button, which takes none while it is disabled
ClickTest ==
  /\ ~disabled(value, testLoading)
  /\ clicks < MaxClicks
  /\ clicks' = clicks + 1
  /\ event' = onTest(value)
  /\ result' = NoResult
  /\ UNCHANGED <<value, variables, input, catalog,
                 providerFilter, modelSearch, selectedProvider,
                 testResult, testError, testLoading,
                 buffers, internalUpdate,
                 timers, sinceEdit, emitted, burst>>

\* files that leave the model or the prompts empty, and one that sets both
TestFiles ==
  { EmptyObject,
    "model" :> Str_OpenAiGpt4o,
    "systemPrompt" :> Str_Helpful,
    ("model" :> Str_OpenAiGpt4o) @@ ("systemPrompt" :> Str_Helpful),
    ("model" :> Str_OpenAiGpt4o) @@ ("userPromptTemplate" :> Str_Hello) }

NextTest ==
  \/ SetTestResult \/ SetTestError \/ SetTestLoading
  \/ ClickTest \/ Import(TestFiles)
SpecTest == Init /\ [][NextTest]_vars

\* Configurations the Test button is enabled for: the prompts, the sampling
\* parameters or the options varied, the other fields at their defaults
Testable == [DEFAULT_CONFIG EXCEPT !.model = Str_OpenAiGpt4o, !.systemPrompt = Str_Helpful]
TestConfigs ==
  {[Testable EXCEPT !.systemPrompt = s, !.userPromptTemplate = t, !.sampleInputs = m] :
     s \in SystemPrompts, t \in UserTemplates, m \in SampleMaps}
  \cup
  {[Testable EXCEPT !.temperature = te, !.maxTokens = mt, !.topP = tp, !.topK = tk,
                    !.frequencyPenalty = fp, !.presencePenalty = fp,
                    !.repetitionPenalty = rp, !.minP = mp, !.stopSequences = st] :
     te \in {Null, 70}, mt \in {0, 2048}, tp \in {Null, One, 90}, tk \in TopKs,
     fp \in Penalties, rp \in {One, 110}, mp \in MinPs, st \in {<< >>, <<(<<"END">>)>>}}
  \cup
  {[Testable EXCEPT !.responseFormat = rf, !.jsonSchema = js, !.tools = tl,
                    !.toolChoice = tc, !.reasoning = re, !.reasoningEffort = ef] :
     rf \in ResponseFormats, js \in JsonSchemas,
     tl \in {<< >>, <<Tool_weather>>, <<Tool_retrieval>>}, tc \in ToolChoices,
     re \in BOOLEAN, ef \in {"", NullStr, "low"}}

InitPayload ==
  /\ value \in TestConfigs
  /\ variables = EmptyObject
  /\ result = NoResult
  /\ FreshComponent

\* the host builds the payload itself and compares it with the event's
NextPayload == ClickTest \/ CallOpenRouter
SpecPayload == InitPayload /\ [][NextPayload]_vars

\* the fields that have no Anthropic-style equivalent
NextIgnored ==
  \/ SetReasoning \/ SetReasoningEffort \/ SetResponseFormat \/ SetJsonSchema
  \/ SetFrequencyPenalty \/ SetPresencePenalty \/ SetRepetitionPenalty \/ SetMinP
  \/ Import(FullFiles)
  \/ CallOpenRouter \/ CallAnthropic
SpecIgnored == Init /\ [][NextIgnored]_vars

\* ---- typing into the text editors
\* the texts typed into the tools editor: JSON arrays, other JSON values, and
\* texts that do not parse
ToolsTexts ==
  {<< >>, <<"[">>, <<"[", "]">>, <<"[", "{weather}">>, <<"[", "{weather}", "]">>,
   <<"[", "{weather}", ",", "{retrieval}", "]">>, <<"[", "{retrieval}", ",", "]">>,
   <<"{weather}">>, <<"null">>}

\* the texts typed into the JSON-schema editor
SchemaTexts ==
  {<< >>, <<"{">>, <<"{schema}">>, <<"{ schema }">>, <<"{schema}", "}">>, <<"null">>}

\* the texts typed into the stop-sequences editor
StopTexts ==
  {<< >>, <<"END">>, <<"END", NL>>, <<"END", NL, "STOP">>, <<NL, "END">>,
   <<"END", NL, NL, "STOP">>}

\* what the try block of an editor's @input lets through to _updateConfig
acceptsSchema_always(parsed) == TRUE
acceptsSchema(parsed) == parsed.ok
acceptsTools(parsed) == parsed.ok /\ parsed.isArray

\* an @input handler that returns without calling _updateConfig: only the
\* editor's buffer was assigned
KeepTyping(typed) ==
  /\ buffers' = typed
  /\ UNCHANGED <<value, variables, input, catalog, panel,
                 internalUpdate, timers, sinceEdit, emitted, burst, event>>

\* @input of the tools editor
TypeTools ==
  \E text \in ToolsTexts :
    LET parsed == JSONparse(text)
        typed == [buffers EXCEPT !.toolsText = text]
    IN /\ result' = [fn |-> "toolsInput", payload |-> text]
       /\ IF acceptsTools(parsed)
            THEN /\ value' = updateConfig(value, "tools", parsed.parsed)
                 /\ Edited(typed)
                 /\ UNCHANGED input
            ELSE KeepTyping(typed)

\* @input of the JSON-schema editor
TypeSchema ==
  \E text \in SchemaTexts :
    LET parsed == JSONparse(text)
        typed == [buffers EXCEPT !.schemaText = text]
    IN /\ result' = [fn |-> "schemaInput", payload |-> text]
       /\ IF acceptsSchema(parsed)
            THEN /\ value' = updateConfig(value, "jsonSchema", parsed.parsed)
                 /\ Edited(typed)
                 /\ UNCHANGED input
            ELSE KeepTyping(typed)

\* @input of the stop-sequences editor
TypeStopSequences ==
  \E text \in StopTexts :
    /\ result' = [fn |-> "stopSequencesInput", payload |-> text]
    /\ value' = updateConfig(value, "stopSequences", stopSequencesOf(text))
    /\ Edited([buffers EXCEPT !.stopSeqText = text])
    /\ UNCHANGED input

\* a configuration file with tools and stop sequences
EditorFiles ==
  {("tools" :> <<Tool_retrieval>>) @@ ("stopSequences" :> <<<<"STOP">>>>)}

NextEditors ==
  \/ TypeTools
  \/ TypeSchema
  \/ TypeStopSequences
  \/ SetToolChoice
  \/ Import(EditorFiles)

SpecEditors == Init /\ [][NextEditors]_vars

\* ------------------------------------------------------------- properties
OR == result.fn = "openrouter"
AN == result.fn = "anthropic"
P == result.payload
Has(key) == key \in DOMAIN P

\* the resolved user prompt of the call that produced result
Resolved ==
  resolveTemplate(value.userPromptTemplate, mergedVars(value.sampleInputs, variables))

Entries(role) == {i \in 1..Len(P["messages"]) : P["messages"][i].role = role}

\* a field is in the payload iff its guard holds, and then carries val
Carries(key, guard, val) == (Has(key) <=> guard) /\ (guard => P[key] = val)

\* C1: toOpenRouterPayload's messages are the system entry iff systemPrompt is
\* non-empty, then the user entry iff the resolved text is non-empty; system
\* precedes user, no other role appears, at most two entries.
C1_Messages ==
  OR => LET m == P["messages"] IN
        /\ Len(m) <= 2
        /\ \A i \in 1..Len(m) : m[i].role \in {"system", "user"}
        /\ Cardinality(Entries("system")) = (IF value.systemPrompt # << >> THEN 1 ELSE 0)
        /\ Cardinality(Entries("user")) = (IF Resolved # << >> THEN 1 ELSE 0)
        /\ \A i \in Entries("system") : m[i].content = value.systemPrompt
        /\ \A i \in Entries("user") : m[i].content = Resolved
        /\ \A i \in Entries("system") : \A j \in Entries("user") : i < j

C1_Witness ==
  /\ OR /\ Len(P["messages"]) = 2
  /\ value.userPromptTemplate # Resolved

\* C2: each sampling wire field of toOpenRouterPayload is present iff its guard
\* holds and then equals the Configuration value.
C2_Sampling ==
  OR => /\ Carries("temperature", value.temperature # Null, value.temperature)
        /\ Carries("max_tokens", value.maxTokens \notin {Null, 0}, value.maxTokens)
        /\ Carries("top_k", value.topK \notin {Null, 0}, value.topK)
        /\ Carries("frequency_penalty", value.frequencyPenalty \notin {Null, 0},
                   value.frequencyPenalty)
        /\ Carries("presence_penalty", value.presencePenalty \notin {Null, 0},
                   value.presencePenalty)
        /\ Carries("min_p", value.minP \notin {Null, 0}, value.minP)
        /\ Carries("top_p", value.topP \notin {Null, One}, value.topP)
        /\ Carries("repetition_penalty", value.repetitionPenalty \notin {Null, 0, One},
                   value.repetitionPenalty)
        /\ Carries("stop", value.stopSequences # << >>, value.stopSequences)

C2_Witness ==
  /\ OR /\ value.temperature = One /\ Has("temperature")
  /\ value.topP = One /\ ~Has("top_p")
  /\ Len(value.stopSequences) = 2 /\ Has("stop")
  /\ value.repetitionPenalty = 110 /\ Has("repetition_penalty")

\* the end-to-end scenario of C3
ScenarioConfig ==
  [DEFAULT_CONFIG EXCEPT !.systemPrompt = Str_Helpful,
                         !.userPromptTemplate = Str_Hello,
                         !.model = Str_OpenAiGpt4o]
ScenarioMessages ==
  <<[role |-> "system", content |-> Str_Helpful],
    [role |-> "user", content |-> Str_Hello]>>
InScenario == OR /\ value = ScenarioConfig /\ variables = EmptyObject

\* C3 as stated: for the scenario Configuration with every other field at its
\* default, the payload is exactly {model, messages}, no other field present.
C3_Original ==
  InScenario => P = ("model" :> Str_OpenAiGpt4o) @@ ("messages" :> ScenarioMessages)

\* C3 amended: for the scenario Configuration the payload is exactly {model,
\* messages, temperature: 1, max_tokens: 4096}: the defaults temperature 1.0 and
\* maxTokens 4096 are sent, every other optional field is absent.
C3_Scenario ==
  InScenario => P = ("model" :> Str_OpenAiGpt4o) @@ ("messages" :> ScenarioMessages)
                     @@ ("temperature" :> One) @@ ("max_tokens" :> 4096)

C3_Witness == InScenario /\ DOMAIN P = {"model", "messages", "temperature", "max_tokens"}

\* C4: tools is present iff Configuration.tools is non-empty (and equals it);
\* tool_choice is present iff toolChoice is not "auto" and tools is non-empty
\* (and equals toolChoice).
C4_Tools ==
  OR => /\ Carries("tools", value.tools # << >>, value.tools)
        /\ Carries("tool_choice", value.toolChoice # "auto" /\ value.tools # << >>,
                   value.toolChoice)

C4_Witness ==
  OR /\ value.toolChoice \in {"required", "none"} /\ value.tools = << >> /\ ~Has("tool_choice")

\* C5: response_format is omitted for text, {type: json_object} for
\* json_object, {type: json_schema, json_schema: jsonSchema} for json_schema
\* with a schema, and omitted for json_schema without a schema.
C5_ResponseFormat ==
  OR => /\ value.responseFormat = "text" => ~Has("response_format")
        /\ value.responseFormat = "json_object" =>
             Has("response_format") /\ P["response_format"] = [type |-> "json_object"]
        /\ value.responseFormat = "json_schema" /\ value.jsonSchema # NullObj =>
             Has("response_format")
             /\ P["response_format"] = [type |-> "json_schema", json_schema |-> value.jsonSchema]
        /\ value.responseFormat = "json_schema" /\ value.jsonSchema = NullObj =>
             ~Has("response_format")

C5_Witness ==
  OR /\ value.responseFormat = "json_schema" /\ value.jsonSchema = NullObj
     /\ ~Has("response_format")

\* C6 as stated: reasoning is present iff Configuration.reasoning is true, with
\* value {effort: reasoningEffort ?? "medium"}, the fallback applying only to a
\* null/undefined reasoningEffort.
C6_Original ==
  OR => Carries("reasoning", value.reasoning,
                [effort |-> IF value.reasoningEffort = NullStr THEN "medium"
                            ELSE value.reasoningEffort])

\* C6 amended: reasoning is present iff Configuration.reasoning is true, with
\* value {effort: reasoningEffort || "medium"}: the fallback applies to every
\* falsy reasoningEffort, the empty string as well as null/undefined.
C6_Reasoning ==
  OR => Carries("reasoning", value.reasoning,
                [effort |-> IF value.reasoningEffort \in {NullStr, ""} THEN "medium"
                            ELSE value.reasoningEffort])

C6_Witness ==
  OR /\ value.reasoning /\ value.reasoningEffort = "" /\ P["reasoning"].effort = "medium"

\* content of the user entry of the payload, << >> when there is none
UserContent ==
  IF Entries("user") = {} THEN << >>
  ELSE P["messages"][CHOOSE i \in Entries("user") : TRUE].content

\* C7: in both builders the user template is resolved with the call-time
\* variables first and sampleInputs for the names the variables leave open, so
\* a key present in both takes the variables value; without variables
\* sampleInputs alone is used.
C7_VariablesWin ==
  (OR \/ AN) =>
     /\ UserContent = resolveTemplate(resolveTemplate(value.userPromptTemplate, variables),
                                      value.sampleInputs)
     /\ variables = EmptyObject =>
          UserContent = resolveTemplate(value.userPromptTemplate, value.sampleInputs)

C7_Witness ==
  /\ AN
  /\ <<"a">> \in DOMAIN variables /\ <<"a">> \in DOMAIN value.sampleInputs
  /\ <<"b">> \notin DOMAIN variables /\ <<"b">> \in DOMAIN value.sampleInputs
  /\ variables[<<"a">>] = <<"w">> /\ value.sampleInputs[<<"a">>] = <<"v">>
  /\ value.sampleInputs[<<"b">>] = <<"v">>
  /\ UserContent = <<"Hi ", "w", " ", "v">>

\* what C8 says of roles, of the user entry and of the system field
C8_UserTurnOnly ==
  /\ Len(P["messages"]) <= 1
  /\ Entries("user") = 1..Len(P["messages"])
  /\ Entries("system") = {}
  /\ Len(P["messages"]) = 1 <=> Resolved # << >>
  /\ \A i \in 1..Len(P["messages"]) : P["messages"][i].content = Resolved
  /\ Carries("system", value.systemPrompt # << >>, value.systemPrompt)

\* C8 as stated: toAnthropicPayload's messages hold only the user turn and never
\* an entry with role system or with the system prompt as content; the system
\* prompt is the top-level system field iff non-empty.
C8_Original ==
  AN => /\ C8_UserTurnOnly
        /\ \A i \in 1..Len(P["messages"]) : P["messages"][i].content # value.systemPrompt

\* C8 amended: messages hold only the user turn, never an entry with role
\* system, and the entry's content is the resolved user prompt (so it is the
\* system prompt's text only when the two texts are the same); the system prompt
\* is the top-level system field iff non-empty.
C8_SystemTopLevel == AN => C8_UserTurnOnly

C8_Witness ==
  AN /\ value.systemPrompt # << >> /\ Len(P["messages"]) = 1
     /\ P["messages"][1].content # value.systemPrompt /\ Has("system")

\* the text after the last "/" of s (all of s when it has none)
RECURSIVE AfterLastSlash(_)
AfterLastSlash(s) ==
  IF s = << >> \/ s[Len(s)] = SLASH THEN << >>
  ELSE Append(AfterLastSlash(SubSeq(s, 1, Len(s) - 1)), s[Len(s)])

EndsWithSlash(s) == s # << >> /\ s[Len(s)] = SLASH

\* C9 as stated: the model field is the last "/"-delimited segment of
\* Configuration.model, also for ids that begin or end with "/".
C9_Original == AN => P["model"] = AfterLastSlash(value.model)

\* C9 amended: the model field is the last "/"-delimited segment of
\* Configuration.model, except that an id ending with "/" (empty last segment)
\* passes through unchanged, as does an id without "/".
C9_Model ==
  AN => P["model"] = (IF EndsWithSlash(value.model) THEN value.model
                      ELSE AfterLastSlash(value.model))

C9_Witness ==
  AN /\ EndsWithSlash(value.model) /\ Len(value.model) > 1 /\ P["model"] = value.model

\* C10: in toAnthropicPayload max_tokens is always present and is maxTokens when
\* truthy, else 4096; temperature iff not null; top_p iff set and not 1; top_k
\* iff truthy; stop_sequences (never stop) iff stopSequences is non-empty.
C10_AnthropicSampling ==
  AN => /\ Has("max_tokens")
        /\ P["max_tokens"] = (IF value.maxTokens \in {Null, 0} THEN 4096 ELSE value.maxTokens)
        /\ Carries("temperature", value.temperature # Null, value.temperature)
        /\ Carries("top_p", value.topP \notin {Null, One}, value.topP)
        /\ Carries("top_k", value.topK \notin {Null, 0}, value.topK)
        /\ Carries("stop_sequences", value.stopSequences # << >>, value.stopSequences)
        /\ ~Has("stop")

C10_Witness ==
  AN /\ value.maxTokens = 0 /\ P["max_tokens"] = 4096
     /\ Len(value.stopSequences) = 2 /\ Has("stop_sequences")
     /\ value.topP = 0 /\ Has("top_p")

\* a Configuration tool entry whose type is "function"
FunctionType(t) == t.type = "function"
\* ... that also carries a function object
FunctionTypeWithObject(t) == t.type = "function" /\ t.function # NullObj

\* the Anthropic-style rendering of one function tool
Remapped(t) ==
  [name |-> t.function.name,
   description |-> IF t.function.description = NullStr THEN "" ELSE t.function.description,
   input_schema |-> IF t.function.parameters = NullObj THEN EmptyObject
                    ELSE t.function.parameters]

\* payload.tools has one entry per selected tool, in order, each remapped
ToolsAre(selected) ==
  /\ Len(P["tools"]) = Len(selected)
  /\ \A i \in 1..Len(selected) : P["tools"][i] = Remapped(selected[i])

C12_ToolChoice ==
  AN => /\ value.tools # << >> =>
             /\ value.toolChoice = "required" => Has("tool_choice") /\ P["tool_choice"] = [type |-> "any"]
             /\ value.toolChoice = "none" => Has("tool_choice") /\ P["tool_choice"] = [type |-> "none"]
             /\ value.toolChoice = "auto" => ~Has("tool_choice")
        /\ Has("tool_choice") => P["tool_choice"] \in {[type |-> "any"], [type |-> "none"]}

C12_Witness ==
  /\ AN /\ value.tools # << >> /\ value.toolChoice = "required"
  /\ P["tool_choice"] = [type |-> "any"]

\* the Configuration with the eight fields toAnthropicPayload has no
\* equivalent for put back to their defaults
IgnoredFields ==
  {"reasoning", "reasoningEffort", "responseFormat", "jsonSchema",
   "frequencyPenalty", "presencePenalty", "repetitionPenalty", "minP"}
Neutral(config) ==
  [k \in DOMAIN config |-> IF k \in IgnoredFields THEN DEFAULT_CONFIG[k] ELSE config[k]]

AnthropicPayloadKeys ==
  {"model", "messages", "max_tokens", "system", "temperature", "top_p", "top_k",
   "stop_sequences", "tools", "tool_choice"}

\* C13: the Anthropic-style payload of a Configuration equals the payload of
\* the Configuration that differs from it only in reasoning, reasoningEffort,
\* responseFormat, jsonSchema, frequencyPenalty, presencePenalty,
\* repetitionPenalty and minP (so any two Configurations that differ only in
\* those fields give identical payloads), and the payload's keys are among
\* model, messages, max_tokens, system, temperature, top_p, top_k,
\* stop_sequences, tools, tool_choice.
C13_Ignored ==
  AN => /\ P = toAnthropicPayload(Neutral(value), variables)
        /\ DOMAIN P \subseteq AnthropicPayloadKeys

C13_Witness ==
  /\ AN /\ value.reasoning = TRUE /\ value.responseFormat = "json_schema"
  /\ value.jsonSchema = Schema_test /\ value.frequencyPenalty # 0 /\ value.minP # 0
  /\ value.repetitionPenalty = 110 /\ value.presencePenalty # 0
  /\ DOMAIN P = AnthropicPayloadKeys

\* ---- template helpers
T == value.userPromptTemplate
Called(fn) == result.fn = fn

\* the positions of T at which a well-formed placeholder begins, and its name
Starts(t) == {i \in 1..Len(t) : MatchEnd(t, i) # 0}
NameAt(t, i) == SubSeq(t, i + 2, MatchEnd(t, i) - 3)
FirstStart(t, name) ==
  CHOOSE i \in Starts(t) :
    NameAt(t, i) = name /\ \A j \in Starts(t) : NameAt(t, j) = name => i <= j

\* resolution as the claim words it: a placeholder becomes map[name] when
\* name is a key of map and stays {{name}} otherwise
RECURSIVE StatedFrom(_, _, _)
StatedFrom(s, i, map) ==
  IF i > Len(s) THEN << >>
  ELSE IF i \in Starts(s)
       THEN (IF NameAt(s, i) \in DOMAIN map THEN map[NameAt(s, i)]
             ELSE Placeholder(NameAt(s, i)))
            \o StatedFrom(s, MatchEnd(s, i), map)
       ELSE <<s[i]>> \o StatedFrom(s, i + 1, map)

\* C14 as stated: resolving replaces every placeholder whose name is a key of
\* the variables map by its value and leaves every other placeholder in its
\* literal {{name}} form, for every \w+ name; an absent or empty template
\* resolves to the empty string.
C14_Original ==
  Called("resolveTemplate") \/ Called("standaloneResolveTemplate") =>
    IF T \in {<< >>, Undefined} THEN P = << >> ELSE P = StatedFrom(T, 1, variables)

\* the map has a value for every placeholder of the template
Covers(t, map) == \A i \in Starts(t) : NameAt(t, i) \in DOMAIN map
\* no value of the map contains a brace
BraceFree(map) ==
  \A k \in DOMAIN map : \A i \in 1..Len(map[k]) : map[k][i] \notin {LBRACE, RBRACE}
\* every {{ of the template opens one of its placeholders
NoStrayOpen(t) ==
  \A i \in 1..(Len(t) - 1) : t[i] = LBRACE /\ t[i + 1] = LBRACE => i \in Starts(t)

\* C15 as stated: resolving the resolved text again with the same map changes
\* nothing whenever the map has a value for every placeholder of the template.
C15_Original ==
  Called("resolveAgain") /\ Covers(T, variables) => P = result.previous

\* C15: resolving the resolved text again with the same map changes nothing
\* whenever the map has a value for every placeholder of the template, no
\* value of the map contains a brace, and every {{ of the template opens one
\* of its placeholders.
C15_Idempotent ==
  Called("resolveAgain") /\ Covers(T, variables) /\ BraceFree(variables) /\ NoStrayOpen(T)
    => P = result.previous

C15_Witness ==
  /\ Called("resolveAgain")
  /\ T = Placeholder(<<"a">>) \o <<"Hi ">> \o Placeholder(<<"b">>)
  /\ variables = (<<"a">> :> <<"v">>) @@ (<<"b">> :> <<"w">>)
  /\ P = <<"v", "Hi ", "w">> /\ result.previous = P

\* names is the list of the distinct placeholder names of t, each once, in
\* the order of their first occurrence
DistinctInOrder(t, names) ==
  /\ {names[j] : j \in 1..Len(names)} = {NameAt(t, i) : i \in Starts(t)}
  /\ \A j, k \in 1..Len(names) :
       j < k => names[j] # names[k] /\ FirstStart(t, names[j]) < FirstStart(t, names[k])

\* C16: extractTemplateVars returns every distinct name of a well-formed
\* {{name}} placeholder exactly once, in order of first occurrence; the empty
\* list for an absent or empty template; single braces and whitespace inside
\* the braces contribute no name.
C16_Extract ==
  Called("extractTemplateVars") =>
    /\ T \in {<< >>, Undefined} => P = << >>
    /\ T # Undefined => DistinctInOrder(T, P)
    /\ T \in {<<LBRACE, "a", RBRACE>>, <<LBRACE, LBRACE, " ", "a", " ", RBRACE, RBRACE>>}
         => P = << >>

C16_Witness ==
  /\ Called("extractTemplateVars")
  /\ T = Placeholder(<<"b">>) \o Placeholder(<<"a">>) \o Placeholder(<<"b">>)
  /\ P = << <<"b">>, <<"a">> >>

\* the map taking every placeholder name of t to its single-brace slot
SlotMap(t) ==
  [k \in {NameAt(t, i) : i \in Starts(t)} |-> <<LBRACE>> \o k \o <<RBRACE>>]

\* C17: toPromptTemplate returns systemTemplate = systemPrompt verbatim,
\* userTemplate = userPromptTemplate with every {{name}} rewritten to {name}
\* and nothing else changed (one rewrite, two characters shorter, per
\* occurrence), and inputVariables = the distinct names of the original
\* userPromptTemplate in order of first occurrence.
C17_PromptTemplate ==
  Called("toPromptTemplate") =>
    /\ P.systemTemplate = value.systemPrompt
    /\ T # Undefined =>
         /\ P.userTemplate = StatedFrom(T, 1, SlotMap(T))
         /\ Len(T) - Len(P.userTemplate) = 2 * Cardinality(Starts(T))
         /\ DistinctInOrder(T, P.inputVariables)

C17_Witness ==
  /\ Called("toPromptTemplate")
  /\ value.systemPrompt = Placeholder(<<"a">>)
  /\ T = Placeholder(<<"a">>) \o <<"Hi ">> \o Placeholder(<<"a">>)
  /\ P = [systemTemplate |-> Placeholder(<<"a">>),
          userTemplate |-> <<LBRACE, "a", RBRACE, "Hi ", LBRACE, "a", RBRACE>>,
          inputVariables |-> << <<"a">> >>]

\* the text of a model id before its first "/" (all of it when it has none)
FirstSegment(m) ==
  LET slashes == {i \in 1..Len(m) : m[i] = SLASH}
  IN IF slashes = {} THEN m
     ELSE SubSeq(m, 1, (CHOOSE i \in slashes : \A j \in slashes : i <= j) - 1)

\* C18 as stated: getProvider returns the first "/"-delimited segment for
\* every non-empty model id and "unknown" for the empty one.
C18_Original ==
  Called("getProvider") =>
    IF value.model # << >> THEN P = FirstSegment(value.model) ELSE P = <<"unknown">>

\* C18: getProvider returns the first "/"-delimited segment of the model id
\* when that segment is non-empty (the whole id when it has no "/"), and
\* "unknown" when it is empty, that is when the id is empty or begins with "/".
C18_Provider ==
  Called("getProvider") =>
    /\ FirstSegment(value.model) # << >> => P = FirstSegment(value.model)
    /\ value.model = << >> \/ (value.model # << >> /\ value.model[1] = SLASH)
         => P = <<"unknown">>

C18_Witness ==
  Called("getProvider") /\ value.model = <<SLASH, "gpt-4o">> /\ P = <<"unknown">>

\* ---- price helpers
\* the price string has no numeric prefix
Unparsable(priceStr) ==
  priceStr \notin {Undefined, << >>} /\ parseFloat(priceStr).nan

\* C19 as stated: no string a price helper returns contains NaN; an
\* unparsable price gives a null cost from priceToCostPerMillion and no
\* NaN-bearing text from formatPrice.
C19_Original ==
  /\ Called("formatPrice") => \A i \in 1..Len(P) : P[i] # "NaN"
  /\ Called("priceToCostPerMillion") /\ Unparsable(input) => P = NullObj

\* ---- dimming of unsupported controls
\* the catalog entry the configured model id selects, if any
Selected == {i \in 1..Len(models) : models[i].id = value.model}
FirstSelected == models[CHOOSE i \in Selected : \A j \in Selected : i <= j]
\* the selected model lists no supported parameters (no list, or an empty one)
Unlisted ==
  \/ Selected = {}
  \/ "supported_parameters" \notin DOMAIN FirstSelected
  \/ FirstSelected.supported_parameters = << >>
Lists(p) ==
  /\ Selected # {}
  /\ "supported_parameters" \in DOMAIN FirstSelected
  /\ Includes(FirstSelected.supported_parameters, p)
\* the catalog has not loaded, the fetch failed, or the model id is not in it
NothingKnown == models = << >> \/ modelsError # NullStr \/ Selected = {}

\* C20 as stated: a control is drawn as supported iff the selected model
\* lists no supported parameters or lists the control's exact wire name; when
\* the catalog has not loaded, the fetch failed or the model id is not in the
\* catalog, no control is dimmed.
C20_Original ==
  Called("render") =>
    /\ \A c \in Controls : c \notin P <=> (Unlisted \/ Lists(c))
    /\ NothingKnown => P = {}

\* C20: as stated, except that the response-format control is also drawn as
\* supported when the list contains "structured_outputs".
C20_Supported ==
  Called("render") =>
    /\ \A c \in Controls \ {"response_format"} : c \notin P <=> (Unlisted \/ Lists(c))
    /\ "response_format" \notin P
         <=> (Unlisted \/ Lists("response_format") \/ Lists("structured_outputs"))
    /\ NothingKnown => P = {}

C20_Witness ==
  /\ Called("render") /\ value.model = <<"gpt-4o">> /\ models = <<Model_bare, Model_gpt4o>>
  /\ P = Controls \ {"response_format"}

\* C30: every payload of toAnthropicPayload that has a tools field has at
\* least one tool in it, and tool_choice is present only in payloads whose
\* tools field carries at least one converted tool, whatever the tools list
\* of the Configuration is.
C30_Original ==
  AN => /\ Has("tools") => Len(P["tools"]) >= 1
        /\ Has("tool_choice") => Has("tools") /\ Len(P["tools"]) >= 1

\* C27: whatever the interleaving of overlapping _fetchModels calls, the
\* fetch state reflects the most recently started fetch: _modelsLoading is
\* true as long as that fetch is in flight, and once every fetch has completed
\* _models and _modelsError hold the result of the most recently started one,
\* with _modelsLoading false.
C27_Original ==
  /\ newest.inFlight => modelsLoading
  /\ (newest.started /\ pending = 0) => (newest.shown /\ ~modelsLoading)

\* C25: the Test button takes no click, so no prompt-test is dispatched, in
\* any state where value.model is empty, or systemPrompt and
\* userPromptTemplate are both empty, or _testLoading is true; so from
\* setTestLoading(true) to the next setTestResult, setTestError or
\* setTestLoading(false) no prompt-test is dispatched.
C25_Disabled ==
  [][ (value.model = << >>
       \/ (value.systemPrompt = << >> /\ value.userPromptTemplate = << >>)
       \/ testLoading)
      => (clicks' = clicks /\ (event'.type = "prompt-test" => event' = event)) ]_vars

\* a test was dispatched and is loading: only _testLoading disables the button
C25_Witness ==
  /\ clicks = 1
  /\ event.type = "prompt-test"
  /\ testLoading
  /\ value.model # << >>
  /\ value.systemPrompt # << >>

\* C28: _testResult and _testError are never both non-null; _testLoading is
\* false right after setTestResult or setTestError; setTestLoading(true)
\* clears result and error, setTestLoading(false) leaves them as they were.
C28_TestState ==
  /\ testResult = NullObj \/ testError = NullStr
  /\ (Called("setTestResult") \/ Called("setTestError")) => ~testLoading
  /\ Called("setTestLoading") =>
        IF result.payload
        THEN testResult = NullObj /\ testError = NullStr
        ELSE testResult = result.previous.testResult
             /\ testError = result.previous.testError

\* setTestLoading(true) has just cleared an error that was shown
C28_Witness ==
  /\ Called("setTestLoading")
  /\ result.payload
  /\ result.previous.testError = "boom"
  /\ testError = NullStr

\* C29: the payload of a prompt-test event equals toOpenRouterPayload(value)
\* called without override variables, field for field, and the event's
\* resolvedMessages equals that payload's messages.
C29_TestPayload ==
  (event.type = "prompt-test" /\ OR) =>
     /\ variables = EmptyObject
     /\ event.payload = P
     /\ event.resolvedMessages = P["messages"]
     /\ event.config = value

\* a template with a placeholder was resolved from the sample inputs
C29_Witness ==
  /\ event.type = "prompt-test"
  /\ OR
  /\ value.systemPrompt = Str_Helpful
  /\ value.userPromptTemplate = Placeholder(<<"a">>)
  /\ <<"a">> \in DOMAIN value.sampleInputs
  /\ value.sampleInputs[<<"a">>] = <<"v">>
  /\ event.resolvedMessages[2].content = <<"v">>

\* the first index at which a model with the prefix stands in the catalog
FirstSeen(prefix) == CHOOSE i \in 1..Len(models) :
  prefixOf(models[i]) = prefix /\ \A j \in 1..(i - 1) : prefixOf(models[j]) # prefix
Allowed(prefix) == Len(providerFilter) = 0 \/ Includes(providerFilter, prefix)

\* C22: the provider grouping has one (prefix, count) pair per distinct
\* prefix, the text before the first "/" of a model id, with count the
\* number of catalog models with that prefix, ordered by descending count,
\* ties in first-seen order; with a non-empty providerFilter only the
\* allow-listed prefixes appear, with the same counts.
C22_Providers ==
  Called("renderProviderDropdown") =>
    /\ {P[i][1] : i \in 1..Len(P)}
         = {prefixOf(models[i]) : i \in {j \in 1..Len(models) : Allowed(prefixOf(models[j]))}}
    /\ \A i, j \in 1..Len(P) : i # j => P[i][1] # P[j][1]
    /\ \A i \in 1..Len(P) :
         P[i][2] = Cardinality({j \in 1..Len(models) : prefixOf(models[j]) = P[i][1]})
    /\ \A i, j \in 1..Len(P) :
         i < j => \/ P[i][2] > P[j][2]
                  \/ P[i][2] = P[j][2] /\ FirstSeen(P[i][1]) < FirstSeen(P[j][1])

\* the prefix seen second has more models and is listed first
C22_Witness ==
  /\ Called("renderProviderDropdown")
  /\ providerFilter = <<(<<"anthropic">>), (<<"openai">>)>>
  /\ P = <<(<<(<<"openai">>), 2>>), (<<(<<"anthropic">>), 1>>)>>
  /\ Len(models) = 3

\* the prefix filter in force: the providerFilter allow-list or, without
\* one, the selected provider when one is given
PrefixFilter(selected, given) ==
  IF Len(providerFilter) > 0 THEN providerFilter
  ELSE IF given THEN <<selected>> ELSE << >>

\* the catalog models, in catalog order, whose prefix passes the filter and
\* whose id or name contains the query, case-insensitively
Listing(filter) ==
  SelectSeq(models,
            LAMBDA m : /\ Len(filter) = 0 \/ Includes(filter, prefixOf(m))
                       /\ \/ includes(toLowerCase(m.id), toLowerCase(modelSearch))
                          \/ includes(toLowerCase(<<m.name>>), toLowerCase(modelSearch)))

\* C21: the filtered model list is exactly the catalog models, in catalog
\* order, whose provider prefix passes the prefix filter (the providerFilter
\* allow-list or the selected provider, when one is given) and whose id or
\* name contains the search query case-insensitively, and no model whose
\* prefix is outside a non-empty providerFilter is ever listed.
C21_Original ==
  /\ Called("renderModelDropdown") =>
        /\ P = Listing(PrefixFilter(value.provider, value.provider # << >>))
        /\ Len(providerFilter) > 0 =>
              \A i \in 1..Len(P) : Includes(providerFilter, prefixOf(P[i]))
  /\ Called("renderModelSelector") =>
        /\ P = Listing(PrefixFilter(selectedProvider, selectedProvider # ALL_PROVIDERS))
        /\ Len(providerFilter) > 0 =>
              \A i \in 1..Len(P) : Includes(providerFilter, prefixOf(P[i]))

IsArray(x) == DOMAIN x = 1..Cardinality(DOMAIN x)

\* C24: text typed into the JSON-schema or tools editor updates the
\* configuration only when it is valid: on a text that does not parse as
\* JSON, and for tools on a text that parses to something other than an
\* array, value is left as it was and no prompt-change is scheduled, while
\* the editor's buffer holds the typed text; and value.tools is an array in
\* every state
C24_ValidOnly ==
  /\ [](IsArray(value.tools))
  /\ [][(result'.fn = "schemaInput" /\ ~JSONparse(result'.payload).ok)
          => /\ value' = value
             /\ timers' = timers
             /\ sinceEdit' = sinceEdit
             /\ buffers'.schemaText = result'.payload]_vars
  /\ [][(/\ result'.fn = "toolsInput"
         /\ ~(JSONparse(result'.payload).ok /\ JSONparse(result'.payload).isArray))
          => /\ value' = value
             /\ timers' = timers
             /\ sinceEdit' = sinceEdit
             /\ buffers'.toolsText = result'.payload]_vars

\* an unfinished array was typed over an imported configuration that has a
\* tool: the buffer holds the text, the tool is still there and nothing is
\* scheduled
C24_Witness ==
  /\ Called("toolsInput")
  /\ result.payload = <<"[", "{weather}">>
  /\ buffers.toolsText = <<"[", "{weather}">>
  /\ value.tools = <<Tool_retrieval>>
  /\ timers = {}

\* C26: an edit made through _updateConfig does not run _syncTextEditors, so
\* after an input into an editor the editor's buffer holds the text that was
\* typed
C26_Original ==
  /\ Called("stopSequencesInput") => buffers.stopSeqText = result.payload
  /\ Called("toolsInput") => buffers.toolsText = result.payload
  /\ Called("schemaInput") => buffers.schemaText = result.payload

====
